---- MODULE Spec2Model ----
(***************************************************************************)
(* pcritical: dependency graph construction, edge weights and the          *)
(* critical-path engine (topological order, longest path, reconstruction). *)
(*                                                                         *)
(* Spec is the sequential pipeline of main(): populateNode, then           *)
(* computeEdgeWeights, then markCriticalPaths/traceCritical, on a source   *)
(* tree without cgo or unsafe imports.  SpecReadme is the same pipeline on *)
(* the example graph of the README.  SpecPopulate is populateNode alone on *)
(* a tree that also imports "C" and "unsafe".                              *)
(*                                                                         *)
(* The answers of the external toolchain ("go list", "go build") are       *)
(* chosen when a query is first made and are memoized from then on, as     *)
(* goList and pkgSize memoize them.                                        *)
(***************************************************************************)
EXTENDS Integers, Sequences, FiniteSets, TLC

\* ---------------------------------------------------------------- bounds
MaxPkgs == 3        \* number of real packages in the source tree
MaxSize == 2        \* largest package size "go build" yields
MaxPseudo == 1      \* imports of "C" or "unsafe" in the whole source tree

PkgNames == <<"P", "Q", "R", "S", "T", "U", "V">>
Pkgs == {PkgNames[i] : i \in 1..MaxPkgs}
target == PkgNames[1]
PkgIndex(p) == CHOOSE i \in 1..MaxPkgs : PkgNames[i] = p
Sizes == 0..MaxSize

VARIABLES
    golistworld,    \* toolchain: pkg -> the answers "go list" may give
    sizeworld,      \* toolchain: pkg -> the sizes "go build" may yield
    inunsflag,      \* -include-unsafe
    nostdflag,      \* -nostd
    listcache,      \* memoized "go list" results: pkg -> Pkg
    pkgsizecache,   \* memoized package sizes: pkg -> size
    nodes,          \* pgraph.nodes: pkg -> int
    labels,         \* zgr nodes: node id -> label
    edges,          \* zgr edges in insertion order: [src, sink, attrs]
    stack,          \* populateNode activations, innermost last
    pc,             \* position of main()
    listing,        \* topsort result
    pathto,         \* markCriticalPaths: node id -> longest path value
    k,              \* markCriticalPaths: second loop counter
    included,       \* nodes painted by traceCritical
    cp,             \* traceCritical: path segments
    cur,            \* traceCritical: current node id
    cps,            \* the critical path as written by writeCP
    repohash,       \* revision of the target's repository, as words
    goroothash,     \* revision of GOROOT, as words
    disk,           \* the cache directory *glcacheflag
    prior,          \* the cache directory as the run found it
    calls,          \* the calls of goList and pkgSize made so far, in order
    run,            \* SpecCache: the phase of the run
    failed,         \* the queries and cache writes that have failed so far
    report,         \* what main handed to log.Fatal, <<>> if nothing
    gomaxprocs,     \* runtime.GOMAXPROCS(0)
    running,        \* goroutines of the batch that hold a slot of sema
    sizing,         \* goroutines of computeEdgeWeights that wg still counts
    procs,          \* SpecThreads: main and the goroutines, each with its locals
    mu,             \* listcachemu and pkgsizecachemu: who holds them
    audit           \* what the validations of the run have removed

vars == <<golistworld, sizeworld, inunsflag, nostdflag, listcache, pkgsizecache,
          nodes, labels, edges, stack, pc, listing, pathto, k, included, cp,
          cur, cps, repohash, goroothash, disk, prior, calls, run,
          failed, report, gomaxprocs, running, sizing,
                  procs, mu, audit>>

\* what no action of the pipeline changes
inputs == <<golistworld, sizeworld, inunsflag, nostdflag,
            repohash, goroothash, disk, prior, calls, run, failed, report,
            gomaxprocs, running, sizing,
                  procs, mu, audit>>

\* ------------------------------------------------------- external world
Range(s) == {s[i] : i \in DOMAIN s}

\* Import lists: no package twice.
InjSeqs(S) ==
    UNION {{s \in [1..n -> S] : \A i, j \in 1..n : i # j => s[i] # s[j]} :
           n \in 0..Cardinality(S)}

Pseudo == {"C", "unsafe"}
PseudoIn(s) == Cardinality({i \in DOMAIN s : s[i] \in Pseudo})

RECURSIVE PseudoCount(_)
\* the pseudo imports of the packages listed so far
PseudoCount(m) ==
    IF DOMAIN m = {} THEN 0
    ELSE LET p == CHOOSE x \in DOMAIN m : TRUE
         IN PseudoIn(m[p].Imports) + PseudoCount([q \in DOMAIN m \ {p} |-> m[q]])

\* A package imports only packages later in PkgNames (Go import graphs are
\* acyclic), and possibly pseudo packages.
Later(p) == {PkgNames[i] : i \in (PkgIndex(p) + 1)..MaxPkgs}

Pkg(std, path, imps) == [Standard |-> std, ImportPath |-> path, Imports |-> imps]

\* A source tree: the packages from position stdfrom on are standard library,
\* ps are the pseudo packages it may import.
Tree(stdfrom, ps) ==
    [p \in Pkgs \cup {"unsafe"} |->
        IF p = "unsafe" THEN {Pkg(TRUE, p, <<>>)}
        ELSE {Pkg(PkgIndex(p) >= stdfrom, p, s) : s \in InjSeqs(Later(p) \cup ps)}]

\* "go list -json tgt": what the toolchain may answer
goListUncached(tgt) ==
    {pk \in golistworld[tgt] :
        PseudoIn(pk.Imports) + PseudoCount(listcache) <= MaxPseudo}

\* goList: the memoized result if there is one, else the toolchain's answer.
goList(dir) ==
    IF dir \in DOMAIN listcache THEN {listcache[dir]} ELSE goListUncached(dir)

\* pkgSize: "unsafe" is special-cased, everything else is memoized.
pkgSize(dir) == IF dir = "unsafe" THEN 1 ELSE pkgsizecache[dir]

\* ------------------------------------------------------------ the graph
qu == "\""
nodeAttr(n) == [label |-> <<qu, n, qu>>]

nid(n) == nodes[n]
snid(n) == <<"N", nid(n)>>

\* nidPkgSize strips the quotes nodeAttr put around the package name.
nidPkgSize(id) == pkgSize(labels[id][2])

NoAttrs == [x \in {} |-> 0]

AddEdge(es, src, sink) == Append(es, [src |-> src, sink |-> sink, attrs |-> NoAttrs])

SetEdgeAttrs(es, src, sink, attrs) ==
    [e \in DOMAIN es |->
        IF es[e].src = src /\ es[e].sink = sink
        THEN [es[e] EXCEPT !.attrs = attrs] ELSE es[e]]

RECURSIVE Ascending(_)
\* the members of a set of edge indices, ascending: the order of insertion
Ascending(S) ==
    IF S = {} THEN <<>>
    ELSE LET m == CHOOSE x \in S : \A y \in S : x <= y
         IN <<m>> \o Ascending(S \ {m})

\* zgr hands out a node's edges in the order they were added
GetEdges(es, n) == Ascending({e \in DOMAIN es : es[e].src = n})
GetInEdges(es, n) == Ascending({e \in DOMAIN es : es[e].sink = n})

\* ------------------------------------------------------------ populateNode
\* pskip as a bug would have it: -include-unsafe is not looked at
pskip_NoFlag(dep) == dep = "unsafe" \/ dep = "C"

\* pskip: the imports that populateNode passes over
pskip(dep) == (~inunsflag /\ dep = "unsafe") \/ dep = "C"

top == stack[Len(stack)]
SetTop(f) == [stack EXCEPT ![Len(stack)] = f]
imports(f) == listcache[f.tgt].Imports

engineVars == <<listing, pathto, k, included, cp, cur, cps>>

\* nid := len(g.nodes) as a bug would have it: the count starts at one
newNid_FromOne(ns) == IF DOMAIN ns = {} THEN 1 ELSE Cardinality(DOMAIN ns)

\* nid := len(g.nodes)
newNid(ns) == Cardinality(DOMAIN ns)

\* wg.Wait() as a bug would have it: it returns at once
Wait_NoBlock(wg) == TRUE

\* wg.Wait() returns when every goroutine counted has called wg.Done()
Wait(wg) == wg = {}

\* populateNode up to the launch of the warm-up goroutines
PopulateEnter ==
    /\ pc = "populate" /\ top.phase = "enter"
    /\ IF top.tgt \in DOMAIN nodes
       THEN /\ pc' = "panic"
            /\ UNCHANGED <<listcache, nodes, labels, stack>>
       ELSE /\ nodes' = (top.tgt :> newNid(nodes)) @@ nodes
            /\ labels' = (<<"N", newNid(nodes)>> :> nodeAttr(top.tgt).label) @@ labels
            /\ \E pk \in goList(top.tgt) :
                 /\ listcache' = (top.tgt :> pk) @@ listcache
                 /\ stack' = SetTop([top EXCEPT
                        !.phase = "loop",
                        !.pending = {dep \in Range(pk.Imports) : ~pskip(dep)},
                        !.i = 1])
            /\ pc' = pc
    /\ UNCHANGED inputs
    /\ UNCHANGED <<pkgsizecache, edges>>
    /\ UNCHANGED engineVars

\* the goroutine as a bug would have it: wg.Done() is never called
WarmWorker_NoDone ==
    /\ pc = "populate" /\ top.phase = "loop"
    /\ \E dep \in top.pending :
         \E pk \in goList(dep) :
            listcache' = (dep :> pk) @@ listcache
    /\ UNCHANGED inputs
    /\ UNCHANGED <<pkgsizecache, nodes, labels, edges, stack, pc>>
    /\ UNCHANGED engineVars

\* one goroutine of the first loop: goList(pk) to warm the cache
WarmWorker ==
    /\ pc = "populate" /\ top.phase = "loop"
    /\ \E dep \in top.pending :
         \E pk \in goList(dep) :
            /\ listcache' = (dep :> pk) @@ listcache
            /\ stack' = SetTop([top EXCEPT !.pending = @ \ {dep}])
    /\ UNCHANGED inputs
    /\ UNCHANGED <<pkgsizecache, nodes, labels, edges, pc>>
    /\ UNCHANGED engineVars

\* second loop, a pseudo import: continue
LoopSkipPseudo ==
    /\ pc = "populate" /\ top.phase = "loop" /\ Wait(top.pending)
    /\ top.i <= Len(imports(top))
    /\ pskip(imports(top)[top.i])
    /\ stack' = SetTop([top EXCEPT !.i = @ + 1])
    /\ UNCHANGED inputs
    /\ UNCHANGED <<listcache, pkgsizecache, nodes, labels, edges, pc>>
    /\ UNCHANGED engineVars

\* second loop, -nostd and a standard library import: continue
LoopSkipStd ==
    /\ pc = "populate" /\ top.phase = "loop" /\ Wait(top.pending)
    /\ top.i <= Len(imports(top))
    /\ LET dep == imports(top)[top.i] IN
         /\ ~pskip(dep)
         /\ \E pk \in goList(dep) :
              /\ nostdflag /\ pk.Standard
              /\ listcache' = (dep :> pk) @@ listcache
         /\ stack' = SetTop([top EXCEPT !.i = @ + 1])
    /\ UNCHANGED inputs
    /\ UNCHANGED <<pkgsizecache, nodes, labels, edges, pc>>
    /\ UNCHANGED engineVars

\* second loop, an import that is not yet a node: recurse
LoopRecurse ==
    /\ pc = "populate" /\ top.phase = "loop" /\ Wait(top.pending)
    /\ top.i <= Len(imports(top))
    /\ LET dep == imports(top)[top.i] IN
         /\ ~pskip(dep)
         /\ \E pk \in goList(dep) :
              /\ ~(nostdflag /\ pk.Standard)
              /\ listcache' = (dep :> pk) @@ listcache
         /\ dep \notin DOMAIN nodes
         /\ stack' = Append(stack, [tgt |-> dep, phase |-> "enter", pending |-> {}, i |-> 1])
    /\ UNCHANGED inputs
    /\ UNCHANGED <<pkgsizecache, nodes, labels, edges, pc>>
    /\ UNCHANGED engineVars

\* second loop, an import that is already a node: add the edge
LoopEdge ==
    /\ pc = "populate" /\ top.phase = "loop" /\ Wait(top.pending)
    /\ top.i <= Len(imports(top))
    /\ LET dep == imports(top)[top.i] IN
         /\ ~pskip(dep)
         /\ \E pk \in goList(dep) :
              /\ ~(nostdflag /\ pk.Standard)
              /\ listcache' = (dep :> pk) @@ listcache
         /\ dep \in DOMAIN nodes
         /\ edges' = AddEdge(edges, snid(top.tgt), snid(dep))
         /\ stack' = SetTop([top EXCEPT !.i = @ + 1])
    /\ UNCHANGED inputs
    /\ UNCHANGED <<pkgsizecache, nodes, labels, pc>>
    /\ UNCHANGED engineVars

\* return snid, nil; the caller adds the edge to the node just populated
PopulateReturn ==
    /\ pc = "populate" /\ top.phase = "loop" /\ Wait(top.pending)
    /\ top.i > Len(imports(top))
    /\ IF Len(stack) = 1
       THEN /\ stack' = <<>>
            /\ pc' = "sizes"
            /\ edges' = edges
       ELSE LET caller == stack[Len(stack) - 1]
                rest == SubSeq(stack, 1, Len(stack) - 1)
            IN /\ edges' = AddEdge(edges, snid(caller.tgt), snid(top.tgt))
               /\ stack' = [rest EXCEPT ![Len(rest)] = [caller EXCEPT !.i = @ + 1]]
               /\ pc' = pc
    /\ UNCHANGED inputs
    /\ UNCHANGED <<listcache, pkgsizecache, nodes, labels>>
    /\ UNCHANGED engineVars

\* ------------------------------------------------------ computeEdgeWeights
RECURSIVE fmtD(_)
\* fmt.Sprintf("%d", n) for n >= 0: the decimal digits
fmtD(n) == IF n < 10 THEN <<n>> ELSE Append(fmtD(n \div 10), n % 10)

RECURSIVE digitsValue(_)
digitsValue(s) ==
    IF Len(s) = 0 THEN 0
    ELSE 10 * digitsValue(SubSeq(s, 1, Len(s) - 1)) + s[Len(s)]

\* fmt.Sscanf(s, "%d", &wt): fails on the empty string
sscanD(s) == IF Len(s) = 0 THEN [ok |-> FALSE, wt |-> 0]
             ELSE [ok |-> TRUE, wt |-> digitsValue(s)]

\* the first loop of computeEdgeWeights: one pkgSize per node of g.nodes.
\* Its goroutines only fill pkgsizecache.
ComputeSizes ==
    /\ pc = "sizes"
    /\ \E sz \in [DOMAIN nodes \ {"unsafe"} -> UNION Range(sizeworld)] :
         /\ \A p \in DOMAIN sz : sz[p] \in sizeworld[p]
         /\ pkgsizecache' = sz
    /\ pc' = "weights"
    /\ UNCHANGED inputs
    /\ UNCHANGED <<listcache, nodes, labels, edges, stack>>
    /\ UNCHANGED engineVars

RECURSIVE weighEdges(_, _)
\* weighEdges as a bug would have it: every other edge is passed over
weighEdges_Sparse(es, e) ==
    IF e > Len(es) THEN es
    ELSE weighEdges(
            SetEdgeAttrs(es, es[e].src, es[e].sink,
                         [label |-> fmtD(nidPkgSize(es[e].sink))]),
            e + 2)

\* the second loop: every edge gets the size of its sink as its label
weighEdges(es, e) ==
    IF e > Len(es) THEN es
    ELSE weighEdges(
            SetEdgeAttrs(es, es[e].src, es[e].sink,
                         [label |-> fmtD(nidPkgSize(es[e].sink))]),
            e + 1)

\* the sizes the second loop asks for are known
sized(id) == labels[id][2] = "unsafe" \/ labels[id][2] \in DOMAIN pkgsizecache

ApplyEdgeWeights ==
    /\ pc = "weights"
    /\ \A e \in DOMAIN edges : sized(edges[e].sink)
    /\ edges' = weighEdges(edges, 1)
    /\ pc' = "topsort"
    /\ UNCHANGED inputs
    /\ UNCHANGED <<listcache, pkgsizecache, nodes, labels, stack>>
    /\ UNCHANGED engineVars

GetEdgeAttrs(e) == e.attrs
attr(attrs, key) == IF key \in DOMAIN attrs THEN attrs[key] ELSE <<>>

EdgeWeight(e) == sscanD(attr(GetEdgeAttrs(e), "label"))

\* ------------------------------------------------------------------ topsort
RECURSIVE tsvisit(_, _, _)
RECURSIVE tsvisitEdges(_, _, _, _)

\* tsvisit as a bug would have it: the node is recorded before its successors
tsvisit_Preorder(es, n, st) ==
    IF n \in st.visited THEN st
    ELSE tsvisitEdges(es, GetEdges(es, n), 1,
                      [visited |-> st.visited \cup {n}, tslist |-> Append(st.tslist, n)])

tsvisit(es, n, st) ==
    IF n \in st.visited THEN st
    ELSE LET st1 == [st EXCEPT !.visited = @ \cup {n}]
             st2 == tsvisitEdges(es, GetEdges(es, n), 1, st1)
         IN [st2 EXCEPT !.tslist = Append(@, n)]

tsvisitEdges(es, out, i, st) ==
    IF i > Len(out) THEN st
    ELSE tsvisitEdges(es, out, i + 1, tsvisit(es, es[out[i]].sink, st))

\* topsort as a bug would have it: the recorded order is not reversed
topsort_NoReverse(es, root) ==
    tsvisit(es, root, [visited |-> {}, tslist |-> <<>>]).tslist

topsort(es, root) ==
    LET tslist == tsvisit(es, root, [visited |-> {}, tslist |-> <<>>]).tslist
        n == Len(tslist)
    IN [j \in 1..n |-> tslist[n - j + 1]]

\* -------------------------------------------------------- markCriticalPaths
Get(m, key) == IF key \in DOMAIN m THEN m[key] ELSE 0

rootnid == snid(target)

Topsort ==
    /\ pc = "topsort"
    /\ listing' = topsort(edges, rootnid)
    /\ pc' = "pathinit"
    /\ UNCHANGED inputs
    /\ UNCHANGED <<listcache, pkgsizecache, nodes, labels, edges, stack>>
    /\ UNCHANGED <<pathto, k, included, cp, cur, cps>>

\* first loop: pathto[nid] = pi.sz
PathInit ==
    /\ pc = "pathinit"
    /\ \A n \in Range(listing) : sized(n)
    /\ pathto' = [n \in Range(listing) |-> nidPkgSize(n)]
    /\ k' = 0
    /\ pc' = "pass2"
    /\ UNCHANGED inputs
    /\ UNCHANGED <<listcache, pkgsizecache, nodes, labels, edges, stack>>
    /\ UNCHANGED <<listing, included, cp, cur, cps>>

RECURSIVE relax_NoSrcWt(_, _, _, _, _)
\* relax as a bug would have it: the size of the source is not added
relax_NoSrcWt(es, in, i, toval, pt) ==
    IF i > Len(in) THEN pt
    ELSE LET srcnid == es[in[i]].src
             npt == toval
         IN relax_NoSrcWt(es, in, i + 1, toval,
                  IF Get(pt, srcnid) < npt
                  THEN (srcnid :> npt) @@ pt ELSE pt)

RECURSIVE relax_Sink(_, _, _, _, _)
\* relax as a bug would have it: the wrong endpoint of the edge is raised
relax_Sink(es, in, i, toval, pt) ==
    IF i > Len(in) THEN pt
    ELSE LET srcnid == es[in[i]].sink
             npt == toval + nidPkgSize(srcnid)
         IN relax_Sink(es, in, i + 1, toval,
                  IF Get(pt, srcnid) < npt
                  THEN (srcnid :> npt) @@ pt ELSE pt)

RECURSIVE relax(_, _, _, _, _)
\* the in-edges of one node: raise pathto of each source to toval + its size
relax(es, in, i, toval, pt) ==
    IF i > Len(in) THEN pt
    ELSE LET srcnid == es[in[i]].src
             npt == toval + nidPkgSize(srcnid)
         IN relax(es, in, i + 1, toval,
                  IF Get(pt, srcnid) < npt
                  THEN (srcnid :> npt) @@ pt ELSE pt)

\* one iteration of the second loop, from the end of the listing
Pass2Step ==
    /\ pc = "pass2" /\ k < Len(listing)
    /\ LET n == listing[Len(listing) - k]
       IN pathto' = relax(edges, GetInEdges(edges, n), 1, Get(pathto, n), pathto)
    /\ k' = k + 1
    /\ UNCHANGED inputs
    /\ UNCHANGED <<listcache, pkgsizecache, nodes, labels, edges, stack, pc>>
    /\ UNCHANGED <<listing, included, cp, cur, cps>>

\* the loop is over; traceCritical starts at the root
TraceInit ==
    /\ pc = "pass2" /\ k = Len(listing)
    /\ included' = {rootnid}
    /\ cp' = <<[nid |-> rootnid, pkg |-> labels[rootnid], wt |-> 0]>>
    /\ cur' = rootnid
    /\ pc' = "trace"
    /\ UNCHANGED inputs
    /\ UNCHANGED <<listcache, pkgsizecache, nodes, labels, edges, stack>>
    /\ UNCHANGED <<listing, pathto, k, cps>>

\* -------------------------------------------------------------- traceCritical
RECURSIVE scan_NoCompare(_, _, _, _)
\* scan as a bug would have it: every edge replaces the best one
scan_NoCompare(es, out, i, best) ==
    IF i > Len(out) \/ ~best.ok THEN best
    ELSE LET edge == es[out[i]]
             sinknid == edge.sink
             sinkpt == Get(pathto, sinknid)
             w == EdgeWeight(edge)
         IN IF ~w.ok THEN [best EXCEPT !.ok = FALSE]
            ELSE scan_NoCompare(es, out, i + 1,
                      [ok |-> TRUE, bestsucc |-> sinknid, bestpt |-> sinkpt,
                       bestwt |-> w.wt, attrs |-> GetEdgeAttrs(edge)])

RECURSIVE scan_Greedy(_, _, _, _)
\* scan as a bug would have it: edge weights are compared, not pathto values
scan_Greedy(es, out, i, best) ==
    IF i > Len(out) \/ ~best.ok THEN best
    ELSE LET edge == es[out[i]]
             sinknid == edge.sink
             sinkpt == Get(pathto, sinknid)
             w == EdgeWeight(edge)
         IN IF ~w.ok THEN [best EXCEPT !.ok = FALSE]
            ELSE scan_Greedy(es, out, i + 1,
                      IF best.bestwt < w.wt
                      THEN [ok |-> TRUE, bestsucc |-> sinknid, bestpt |-> sinkpt,
                            bestwt |-> w.wt, attrs |-> GetEdgeAttrs(edge)]
                      ELSE best)

RECURSIVE scan_LastTie(_, _, _, _)
\* scan as a bug would have it: an edge as good as the best one replaces it
scan_LastTie(es, out, i, best) ==
    IF i > Len(out) \/ ~best.ok THEN best
    ELSE LET edge == es[out[i]]
             sinknid == edge.sink
             sinkpt == Get(pathto, sinknid)
             w == EdgeWeight(edge)
         IN IF ~w.ok THEN [best EXCEPT !.ok = FALSE]
            ELSE scan_LastTie(es, out, i + 1,
                      IF best.bestpt <= sinkpt
                      THEN [ok |-> TRUE, bestsucc |-> sinknid, bestpt |-> sinkpt,
                            bestwt |-> w.wt, attrs |-> GetEdgeAttrs(edge)]
                      ELSE best)

RECURSIVE scan_PtAsWt(_, _, _, _)
\* scan as a bug would have it: bestwt takes the target's pathto
scan_PtAsWt(es, out, i, best) ==
    IF i > Len(out) \/ ~best.ok THEN best
    ELSE LET edge == es[out[i]]
             sinknid == edge.sink
             sinkpt == Get(pathto, sinknid)
             w == EdgeWeight(edge)
         IN IF ~w.ok THEN [best EXCEPT !.ok = FALSE]
            ELSE scan_PtAsWt(es, out, i + 1,
                      IF best.bestpt < sinkpt
                      THEN [ok |-> TRUE, bestsucc |-> sinknid, bestpt |-> sinkpt,
                            bestwt |-> sinkpt, attrs |-> GetEdgeAttrs(edge)]
                      ELSE best)

RECURSIVE scan(_, _, _, _)
\* the loop over the out-edges of the current node
scan(es, out, i, best) ==
    IF i > Len(out) \/ ~best.ok THEN best
    ELSE LET edge == es[out[i]]
             sinknid == edge.sink
             sinkpt == Get(pathto, sinknid)
             w == EdgeWeight(edge)
         IN IF ~w.ok THEN [best EXCEPT !.ok = FALSE]
            ELSE scan(es, out, i + 1,
                      IF best.bestpt < sinkpt
                      THEN [ok |-> TRUE, bestsucc |-> sinknid, bestpt |-> sinkpt,
                            bestwt |-> w.wt, attrs |-> GetEdgeAttrs(edge)]
                      ELSE best)

NoBest == [ok |-> TRUE, bestsucc |-> <<>>, bestpt |-> 0, bestwt |-> 0, attrs |-> NoAttrs]

\* the test before the panic as a bug would have it: one counts as nothing
unexpected_Small(best) == best.bestpt <= 1

\* if bestpt == 0 { panic("unexpected") }
unexpected(best) == best.bestpt = 0

\* the painting as a bug would have it: the edge gets a map of its own
paint_Fresh(attrs) == "color" :> "red"

\* attrs["color"] = "red", on the attributes the edge already has
paint(attrs) == ("color" :> "red") @@ attrs

\* the current node has no out-edges: leave the loop
TraceBreak ==
    /\ pc = "trace"
    /\ GetEdges(edges, cur) = <<>>
    /\ included' = included \cup {cur}
    /\ pc' = "writecp"
    /\ UNCHANGED inputs
    /\ UNCHANGED <<listcache, pkgsizecache, nodes, labels, edges, stack>>
    /\ UNCHANGED <<listing, pathto, k, cp, cur, cps>>

\* one iteration: pick the best successor, paint the edge, add the segment
TraceStep ==
    /\ pc = "trace"
    /\ GetEdges(edges, cur) # <<>>
    /\ included' = included \cup {cur}
    /\ LET best == scan(edges, GetEdges(edges, cur), 1, NoBest) IN
         IF ~best.ok
         THEN \* return werr, which markCriticalPaths drops
              /\ pc' = "write"
              /\ UNCHANGED <<edges, cp, cur>>
         ELSE IF unexpected(best)
         THEN /\ pc' = "panic"
              /\ UNCHANGED <<edges, cp, cur>>
         ELSE /\ edges' = SetEdgeAttrs(edges, cur, best.bestsucc,
                                       paint(best.attrs))
              /\ cp' = Append(cp, [nid |-> best.bestsucc,
                                   pkg |-> labels[best.bestsucc],
                                   wt |-> best.bestwt])
              /\ cur' = best.bestsucc
              /\ pc' = pc
    /\ UNCHANGED inputs
    /\ UNCHANGED <<listcache, pkgsizecache, nodes, labels, stack>>
    /\ UNCHANGED <<listing, pathto, k, cps>>

\* writeCP as a bug would have it: the weight kept in the segment is written
writeCP_SegWt(segs) == [i \in DOMAIN segs |-> [pkg |-> segs[i].pkg, weight |-> segs[i].wt]]

\* writeCP: one line per segment, with the size of the segment's package
writeCP(segs) == [i \in DOMAIN segs |-> [pkg |-> segs[i].pkg, weight |-> nidPkgSize(segs[i].nid)]]

WriteCP ==
    /\ pc = "writecp"
    /\ cps' = writeCP(cp)
    /\ pc' = "write"
    /\ UNCHANGED inputs
    /\ UNCHANGED <<listcache, pkgsizecache, nodes, labels, edges, stack>>
    /\ UNCHANGED <<listing, pathto, k, included, cp, cur>>

\* main: g.Write(outf, nidToId(g, included))
WriteGraph ==
    /\ pc = "write"
    /\ pc' = "done"
    /\ UNCHANGED inputs
    /\ UNCHANGED <<listcache, pkgsizecache, nodes, labels, edges, stack>>
    /\ UNCHANGED engineVars

\* ------------------------------------------------------------ specification
Empty == [x \in {} |-> 0]

NoDisk == [exists |-> FALSE, glo |-> [present |-> FALSE, data |-> <<>>],
           list |-> Empty, build |-> Empty, archive |-> {}]

NoLocks == [list |-> {}, build |-> {}]
NoAudit == [discards |-> 0, lost |-> {}]

\* the specifications that take a call of goList or pkgSize as one step
\* leave the threads and the mutexes out
NoThreads ==
    /\ procs = Empty
    /\ mu = NoLocks
    /\ audit = NoAudit

\* the pipeline specifications leave the disk tier out
NoCacheDir ==
    /\ NoThreads
    /\ repohash = <<>>
    /\ goroothash = <<>>
    /\ disk = NoDisk
    /\ prior = NoDisk
    /\ calls = <<>>
    /\ run = "off"

\* main() up to the call of populateNode(target, g)
InitRun ==
    /\ NoCacheDir
    /\ running = {}
    /\ sizing = {}
    /\ failed = {}
    /\ report = <<>>
    /\ listcache = Empty
    /\ pkgsizecache = Empty
    /\ nodes = Empty
    /\ labels = Empty
    /\ edges = <<>>
    /\ stack = <<[tgt |-> target, phase |-> "enter", pending |-> {}, i |-> 1]>>
    /\ pc = "populate"
    /\ listing = <<>>
    /\ pathto = Empty
    /\ k = 0
    /\ included = {}
    /\ cp = <<>>
    /\ cur = <<>>
    /\ cps = <<>>

\* the specifications that take a goroutine's work as one step leave the
\* number of processors out
InitState == InitRun /\ gomaxprocs = 1

\* a source tree without pseudo imports
Init ==
    /\ inunsflag = FALSE
    /\ nostdflag \in BOOLEAN
    /\ \E stdfrom \in (IF nostdflag THEN 2..(MaxPkgs + 1) ELSE {MaxPkgs + 1}) :
         golistworld = Tree(stdfrom, {})
    /\ sizeworld = [p \in Pkgs |-> Sizes]
    /\ InitState

Populate ==
    \/ PopulateEnter
    \/ WarmWorker
    \/ LoopSkipStd
    \/ LoopRecurse
    \/ LoopEdge
    \/ PopulateReturn

Engine ==
    \/ ComputeSizes
    \/ ApplyEdgeWeights
    \/ Topsort
    \/ PathInit
    \/ Pass2Step
    \/ TraceInit
    \/ TraceBreak
    \/ TraceStep
    \/ WriteCP
    \/ WriteGraph

Next == Populate \/ Engine

Spec == Init /\ [][Next]_vars

\* a source tree with pseudo imports, any flags; populateNode only
InitPopulate ==
    /\ inunsflag \in BOOLEAN
    /\ nostdflag \in BOOLEAN
    /\ \E stdfrom \in (IF nostdflag THEN 2..(MaxPkgs + 1) ELSE {MaxPkgs + 1}) :
         golistworld = Tree(stdfrom, Pseudo)
    /\ sizeworld = [p \in Pkgs |-> Sizes]
    /\ InitState

NextPopulate == Populate \/ LoopSkipPseudo

SpecPopulate == InitPopulate /\ [][NextPopulate]_vars

\* the README's graph: P -> {Q, R}, Q -> {S, T}, R -> {T}, the imports of a
\* package in either order, and the README's sizes (S is 3, or 99)
InitReadme ==
    /\ inunsflag = FALSE
    /\ nostdflag = FALSE
    /\ golistworld =
         [p \in {"P", "Q", "R", "S", "T"} |->
            CASE p = "P" -> {Pkg(FALSE, p, <<"Q", "R">>), Pkg(FALSE, p, <<"R", "Q">>)}
              [] p = "Q" -> {Pkg(FALSE, p, <<"S", "T">>), Pkg(FALSE, p, <<"T", "S">>)}
              [] p = "R" -> {Pkg(FALSE, p, <<"T">>)}
              [] OTHER -> {Pkg(FALSE, p, <<>>)}]
    /\ sizeworld = [p \in {"P", "Q", "R", "S", "T"} |->
            CASE p = "P" -> {10}
              [] p = "Q" -> {11}
              [] p = "R" -> {11}
              [] p = "T" -> {29}
              [] OTHER -> {3, 99}]
    /\ InitState

NextReadme ==
    \/ PopulateEnter
    \/ WarmWorker
    \/ LoopRecurse
    \/ LoopEdge
    \/ PopulateReturn
    \/ Engine

SpecReadme == InitReadme /\ [][NextReadme]_vars

\* ------------------------------------------------------- any import relation
\* SpecCyclic: populateNode on import lists that may form cycles, a package
\* importing itself included.  "go list" prints the imports sorted.
RECURSIVE SortedSeq(_)
SortedSeq(S) ==
    IF S = {} THEN <<>>
    ELSE LET m == CHOOSE x \in S : \A y \in S : PkgIndex(x) <= PkgIndex(y)
         IN <<m>> \o SortedSeq(S \ {m})

InitCyclic ==
    /\ inunsflag = FALSE
    /\ nostdflag = FALSE
    /\ golistworld = [p \in Pkgs |-> {Pkg(FALSE, p, SortedSeq(S)) : S \in SUBSET Pkgs}]
    /\ sizeworld = [p \in Pkgs |-> Sizes]
    /\ InitState

NextCyclic ==
    \/ PopulateEnter
    \/ WarmWorker
    \/ LoopRecurse
    \/ LoopEdge
    \/ PopulateReturn

SpecCyclic == InitCyclic /\ [][NextCyclic]_vars

\* ============================================================ failing queries
\* SpecFail: the pipeline when "go list", "go build" and the cache directory
\* may fail.  goList and pkgSize keep nothing in memory for a call that
\* fails, except that goList has stored the package when writeCache fails.
Failure(kind, dir, by) == [kind |-> kind, dir |-> dir, by |-> by]

\* what a failing goList(dir) leaves in listcache
goListFailure(dir) ==
    {listcache} \cup {(dir :> pk) @@ listcache : pk \in goListUncached(dir)}

\* a goroutine of the first loop whose goList(pk) fails: nobody reads the error
WarmWorkerFail ==
    /\ pc = "populate" /\ top.phase = "loop"
    /\ \E dep \in top.pending :
         /\ dep \notin DOMAIN listcache
         /\ listcache' \in goListFailure(dep)
         /\ failed' = failed \cup {Failure("list", dep, "worker")}
         /\ stack' = SetTop([top EXCEPT !.pending = @ \ {dep}])
    /\ UNCHANGED <<golistworld, sizeworld, inunsflag, nostdflag,
                   repohash, goroothash, disk, prior, calls, run, report,
                   gomaxprocs, running, sizing,
                  procs, mu, audit>>
    /\ UNCHANGED <<pkgsizecache, nodes, labels, edges, pc>>
    /\ UNCHANGED engineVars

\* populateNode(target): goList(tgt) fails, after the node was made
EnterFail ==
    /\ pc = "populate" /\ top.phase = "enter"
    /\ top.tgt \notin DOMAIN nodes
    /\ top.tgt \notin DOMAIN listcache
    /\ nodes' = (top.tgt :> newNid(nodes)) @@ nodes
    /\ labels' = (<<"N", newNid(nodes)>> :> nodeAttr(top.tgt).label) @@ labels
    /\ listcache' \in goListFailure(top.tgt)
    /\ failed' = failed \cup {Failure("list", top.tgt, "seq")}
    /\ stack' = <<>>
    /\ pc' = "fatal"
    /\ report' = <<"list", top.tgt>>
    /\ UNCHANGED <<golistworld, sizeworld, inunsflag, nostdflag,
                   repohash, goroothash, disk, prior, calls, run,
                   gomaxprocs, running, sizing,
                  procs, mu, audit>>
    /\ UNCHANGED <<pkgsizecache, edges>>
    /\ UNCHANGED engineVars

\* second loop: goList(dep) fails; every activation returns the error and
\* main hands it to log.Fatal
LoopFail ==
    /\ pc = "populate" /\ top.phase = "loop" /\ Wait(top.pending)
    /\ top.i <= Len(imports(top))
    /\ LET dep == imports(top)[top.i] IN
         /\ ~pskip(dep)
         /\ dep \notin DOMAIN listcache
         /\ listcache' \in goListFailure(dep)
         /\ failed' = failed \cup {Failure("list", dep, "seq")}
         /\ report' = <<"list", dep>>
    /\ stack' = <<>>
    /\ pc' = "fatal"
    /\ UNCHANGED <<golistworld, sizeworld, inunsflag, nostdflag,
                   repohash, goroothash, disk, prior, calls, run,
                   gomaxprocs, running, sizing,
                  procs, mu, audit>>
    /\ UNCHANGED <<pkgsizecache, nodes, labels, edges>>
    /\ UNCHANGED engineVars

\* the first loop of computeEdgeWeights when pkgSize fails in some of its
\* goroutines: nobody reads the errors
ComputeSizesFail ==
    /\ pc = "sizes"
    /\ \E F \in SUBSET (DOMAIN nodes \ {"unsafe"}) :
         /\ F # {}
         /\ \E sz \in [DOMAIN nodes \ ({"unsafe"} \cup F) -> UNION Range(sizeworld)] :
              /\ \A p \in DOMAIN sz : sz[p] \in sizeworld[p]
              /\ pkgsizecache' = sz
         /\ failed' = failed \cup {Failure("size", p, "worker") : p \in F}
    /\ pc' = "weights"
    /\ UNCHANGED <<golistworld, sizeworld, inunsflag, nostdflag,
                   repohash, goroothash, disk, prior, calls, run, report,
                   gomaxprocs, running, sizing,
                  procs, mu, audit>>
    /\ UNCHANGED <<listcache, nodes, labels, edges, stack>>
    /\ UNCHANGED engineVars

\* the sinks and the nodes of the listing whose size is asked for again
unsized(where) ==
    IF where = "weights"
    THEN {labels[edges[e].sink][2] : e \in {x \in DOMAIN edges : ~sized(edges[x].sink)}}
    ELSE {labels[n][2] : n \in {x \in Range(listing) : ~sized(x)}}

\* nidPkgSize in the second loop of computeEdgeWeights or in the first loop
\* of markCriticalPaths, for a package whose goroutine failed: it succeeds now
SizeRetry ==
    /\ pc \in {"weights", "pathinit"}
    /\ \E p \in unsized(pc) : \E sz \in sizeworld[p] :
         pkgsizecache' = (p :> sz) @@ pkgsizecache
    /\ UNCHANGED inputs
    /\ UNCHANGED <<listcache, nodes, labels, edges, stack, pc>>
    /\ UNCHANGED engineVars

\* the same call fails: computeEdgeWeights returns its error and main calls
\* log.Fatal(perr), perr being the nil populateNode returned; markCriticalPaths
\* returns its error and main calls log.Fatal(err)
SizeFail ==
    /\ pc \in {"weights", "pathinit"}
    /\ \E p \in unsized(pc) :
         /\ failed' = failed \cup {Failure("size", p, "seq")}
         /\ report' = IF pc = "weights" THEN <<"nil">> ELSE <<"size", p>>
    /\ pc' = "fatal"
    /\ UNCHANGED <<golistworld, sizeworld, inunsflag, nostdflag,
                   repohash, goroothash, disk, prior, calls, run,
                   gomaxprocs, running, sizing,
                  procs, mu, audit>>
    /\ UNCHANGED <<listcache, pkgsizecache, nodes, labels, edges, stack>>
    /\ UNCHANGED engineVars

\* traceCritical: writeCP went through, writing the path to the cache
\* fails; traceCritical returns the error, markCriticalPaths returns nil
WriteCPFail ==
    /\ pc = "writecp"
    /\ failed' = failed \cup {Failure("cpath", labels[cp[1].nid][2], "seq")}
    /\ pc' = "write"
    /\ UNCHANGED <<golistworld, sizeworld, inunsflag, nostdflag,
                   repohash, goroothash, disk, prior, calls, run, report,
                   gomaxprocs, running, sizing,
                  procs, mu, audit>>
    /\ UNCHANGED <<listcache, pkgsizecache, nodes, labels, edges, stack>>
    /\ UNCHANGED engineVars

InitFail ==
    /\ inunsflag = FALSE
    /\ nostdflag = FALSE
    /\ golistworld = Tree(MaxPkgs + 1, {})
    /\ sizeworld = [p \in Pkgs |-> Sizes]
    /\ InitState

NextFail ==
    \/ PopulateEnter
    \/ WarmWorker
    \/ LoopRecurse
    \/ LoopEdge
    \/ PopulateReturn
    \/ Engine
    \/ WarmWorkerFail
    \/ EnterFail
    \/ LoopFail
    \/ ComputeSizesFail
    \/ SizeRetry
    \/ SizeFail
    \/ WriteCPFail

SpecFail == InitFail /\ [][NextFail]_vars

\* ================================================================ the cache
\* SpecCache: the two-tier cache behind goList and pkgSize over one run, a
\* call being one step.  The cache directory is as an earlier run left it.
MaxCalls == 3       \* calls of goList and pkgSize in a run
MaxDirs == 2        \* identities queried

CacheDirNames == <<<<"p">>, <<"q", "r">>, <<"s">>, <<"t", "u">>>>
CacheDirs == {CacheDirNames[i] : i \in 1..MaxDirs}
ctarget == CacheDirNames[1]

\* the lines "git log -1 --oneline" may print, as words
Hashes == {<<"x">>, <<"x", "x">>}

\* the record as a bug would have it: the GOROOT hash is left out
gloRecord_RepoOnly(r, g) == r

\* the record "%s %s\n" of initCache, trimmed: the words of both hashes
gloRecord(r, g) == r \o g

\* file contents; an entry that cannot be parsed is <<>>
Garbage == <<>>
listOut(dir, rev) == <<dir, rev>>
toolSize(dir) == 6 + Len(dir)
buildOut(sz, nf) == <<sz, nf>>

\* json.Unmarshal(out, &pkg)
Unmarshal(out) ==
    IF Len(out) = 2 THEN [ok |-> TRUE, pkg |-> [ImportPath |-> out[1], rev |-> out[2]]]
    ELSE [ok |-> FALSE, pkg |-> [ImportPath |-> <<>>, rev |-> ""]]

\* fmt.Sscanf(string(out), "%d %d", &sz, &nf)
Sscanf2(out) ==
    IF Len(out) = 2 THEN [ok |-> TRUE, pi |-> [sz |-> out[1], nf |-> out[2]]]
    ELSE [ok |-> FALSE, pi |-> [sz |-> 0, nf |-> 0]]

RECURSIVE ReplaceAll(_)
\* strings.ReplaceAll(dir, "/", "%"), dir given by its path elements
ReplaceAll(dir) ==
    IF Len(dir) <= 1 THEN dir
    ELSE <<dir[1], "%">> \o ReplaceAll(Tail(dir))

cachePath(dir, tag) == <<ReplaceAll(dir), tag>>

File(era, data) == [era |-> era, data |-> data]
Put(files, path, f) == (path :> f) @@ files

\* os.RemoveAll(*glcacheflag) followed by os.Mkdir
Cleared == [NoDisk EXCEPT !.exists = TRUE]

\* what can go wrong in a call: an I/O operation fails, the toolchain fails
\* ("gofail"), or its output cannot be used ("gobad").  Every failure makes
\* the call return, so a call meets at most one.
Faults == {"none", "mkdir", "readglo", "removeall", "removepart", "remkdir",
           "initopen", "initwrite", "readfile", "writecache", "gofail", "gobad"}

\* initCache: truncate the record file, write both hashes
initCache(d, io) ==
    IF io = "initopen" THEN [err |-> TRUE, disk |-> d]
    ELSE IF io = "initwrite"
    THEN [err |-> TRUE, disk |-> [d EXCEPT !.glo = [present |-> TRUE, data |-> <<>>]]]
    ELSE [err |-> FALSE,
          disk |-> [d EXCEPT !.glo = [present |-> TRUE,
                                      data |-> gloRecord(repohash, goroothash)]]]

\* cacheValid that tells of a mismatch and leaves the directory as it is
cacheValid_NoRemoveAll(d, io) ==
    IF ~d.glo.present THEN [valid |-> FALSE, err |-> FALSE, disk |-> d]
    ELSE IF io = "readglo" THEN [valid |-> FALSE, err |-> TRUE, disk |-> d]
    ELSE [valid |-> d.glo.data = repohash \o goroothash, err |-> FALSE, disk |-> d]

\* cacheValid: the record file is there and holds the hashes of this run
cacheValid(d, io) ==
    IF ~d.glo.present THEN [valid |-> FALSE, err |-> FALSE, disk |-> d]
    ELSE IF io = "readglo" THEN [valid |-> FALSE, err |-> TRUE, disk |-> d]
    ELSE LET val == d.glo.data
             want == repohash \o goroothash
         IN IF val # want
            THEN IF io = "removeall"
                 THEN [valid |-> FALSE, err |-> TRUE, disk |-> d]
                 ELSE IF io = "removepart"
                 THEN \* RemoveAll gave up part-way: the record is gone, entries stay
                      [valid |-> FALSE, err |-> TRUE,
                       disk |-> [d EXCEPT !.glo = [present |-> FALSE, data |-> <<>>]]]
                 ELSE IF io = "remkdir"
                 THEN [valid |-> FALSE, err |-> TRUE, disk |-> NoDisk]
                 ELSE [valid |-> FALSE, err |-> FALSE, disk |-> Cleared]
            ELSE [valid |-> TRUE, err |-> FALSE, disk |-> d]

Files(d, tag) == IF tag = "list" THEN d.list ELSE d.build

\* tryCache(dir, tag): (contents, hit, error) and the directory afterwards
tryCache(d, dir, tag, io) ==
    LET d1 == IF d.exists THEN d ELSE Cleared
        needsinit1 == ~d.exists
        cv == cacheValid(d1, io)
        needsinit == needsinit1 \/ ~cv.valid
        ic == IF needsinit THEN initCache(cv.disk, io)
              ELSE [err |-> FALSE, disk |-> cv.disk]
        path == cachePath(dir, tag)
        miss == [out |-> <<>>, valid |-> FALSE, err |-> FALSE, era |-> "", disk |-> ic.disk]
    IN IF io = "mkdir" THEN [miss EXCEPT !.err = TRUE, !.disk = d]
       ELSE IF cv.err THEN [miss EXCEPT !.err = TRUE, !.disk = cv.disk]
       ELSE IF ic.err THEN [miss EXCEPT !.err = TRUE]
       ELSE IF path \notin DOMAIN Files(ic.disk, tag) THEN miss
       ELSE IF io = "readfile" THEN [miss EXCEPT !.err = TRUE]
       ELSE [out |-> Files(ic.disk, tag)[path].data, valid |-> TRUE, err |-> FALSE,
             era |-> Files(ic.disk, tag)[path].era, disk |-> ic.disk]

\* the outcome of a call: what it returns, what it leaves behind, and whether
\* it ran the toolchain or returned an entry (of memory, or of which era of disk)
Outcome(ok, val, invoked, hit, mem, d) ==
    [ok |-> ok, val |-> val, invoked |-> invoked, hit |-> hit, mem |-> mem, disk |-> d]

NoPkg == [ImportPath |-> <<>>, rev |-> ""]

\* goList(dir)
goListCall(dir, io) ==
    IF dir \in DOMAIN listcache
    THEN Outcome(TRUE, listcache[dir], FALSE, "mem", listcache, disk)
    ELSE LET t == tryCache(disk, dir, "list", io) IN
         IF t.err THEN Outcome(FALSE, NoPkg, FALSE, "none", listcache, t.disk)
         ELSE IF ~t.valid
         THEN \* cache miss, run "go list"
              IF io \in {"gofail", "gobad"}
              THEN Outcome(FALSE, NoPkg, TRUE, "none", listcache, t.disk)
              ELSE LET out == listOut(dir, "rev1")
                       pk == Unmarshal(out).pkg
                       mem == (dir :> pk) @@ listcache
                   IN IF io = "writecache"
                      THEN Outcome(FALSE, NoPkg, TRUE, "none", mem, t.disk)
                      ELSE Outcome(TRUE, pk, TRUE, "none", mem,
                                   [t.disk EXCEPT !.list =
                                        Put(@, cachePath(dir, "list"), File("run", out))])
         ELSE LET u == Unmarshal(t.out) IN
              IF ~u.ok THEN Outcome(FALSE, NoPkg, FALSE, "none", listcache, t.disk)
              ELSE Outcome(TRUE, u.pkg, FALSE, t.era, (dir :> u.pkg) @@ listcache, t.disk)

NoInfo == [sz |-> 0, nf |-> 0]

\* pkgSize(dir, goroot)
pkgSizeCall(dir, io) ==
    IF dir = <<"unsafe">>
    THEN Outcome(TRUE, [sz |-> 1, nf |-> 0], FALSE, "none", pkgsizecache, disk)
    ELSE IF dir \in DOMAIN pkgsizecache
    THEN Outcome(TRUE, pkgsizecache[dir], FALSE, "mem", pkgsizecache, disk)
    ELSE LET t == tryCache(disk, dir, "build", io) IN
         IF t.err THEN Outcome(FALSE, NoInfo, FALSE, "none", pkgsizecache, t.disk)
         ELSE IF ~t.valid
         THEN \* cache miss, run "go build"
              LET outfile == cachePath(dir, "archive")
                  d0 == [t.disk EXCEPT !.archive = @ \ {outfile}]
                  d1 == [t.disk EXCEPT !.archive = @ \cup {outfile}]
              IN IF io = "gofail"
                 THEN Outcome(FALSE, NoInfo, TRUE, "none", pkgsizecache, d0)
                 ELSE IF io = "gobad"
                 THEN \* computePkgInfo failed
                      Outcome(FALSE, NoInfo, TRUE, "none", pkgsizecache, d1)
                 ELSE IF io = "writecache"
                 THEN Outcome(FALSE, NoInfo, TRUE, "none", pkgsizecache, d1)
                 ELSE LET out == buildOut(toolSize(dir), 2)
                          pi == Sscanf2(out).pi
                      IN Outcome(TRUE, pi, TRUE, "none", (dir :> pi) @@ pkgsizecache,
                                 [d0 EXCEPT !.build =
                                     Put(@, cachePath(dir, "build"), File("run", out))])
         ELSE LET u == Sscanf2(t.out) IN
              IF ~u.ok THEN Outcome(FALSE, NoInfo, FALSE, "none", pkgsizecache, t.disk)
              ELSE Outcome(TRUE, u.pi, FALSE, t.era, (dir :> u.pi) @@ pkgsizecache, t.disk)

Call(kind, dir, o) ==
    [kind |-> kind, dir |-> dir, ok |-> o.ok, val |-> o.val,
     invoked |-> o.invoked, hit |-> o.hit]

pipelineVars == <<golistworld, sizeworld, inunsflag, nostdflag, nodes, labels,
                  edges, stack, pc, listing, pathto, k, included, cp, cur, cps,
                  failed, report, gomaxprocs, running, sizing,
                  procs, mu, audit>>

\* The first lookup of a run is populateNode's goList(target); later ones
\* come from the goroutines of the first loop and from the second loop.
\* A failure seen by a goroutine is dropped, any other one ends the run.
GoListStep ==
    /\ run \in {"first", "populate"}
    /\ Len(calls) < MaxCalls
    /\ \E dir \in (IF run = "first" THEN {ctarget} ELSE CacheDirs),
          io \in Faults :
         \E o \in {goListCall(dir, io)} :
           /\ listcache' = o.mem
           /\ disk' = o.disk
           /\ calls' = Append(calls, Call("list", dir, o))
           /\ run' \in (IF o.ok THEN {"populate"}
                        ELSE IF run = "first" THEN {"fatal"}
                        ELSE {"populate", "fatal"})
    /\ UNCHANGED <<pkgsizecache, repohash, goroothash, prior>>
    /\ UNCHANGED pipelineVars

\* populateNode has returned; computeEdgeWeights starts
SizesStart ==
    /\ run = "populate"
    /\ run' = "sizes"
    /\ UNCHANGED <<listcache, pkgsizecache, repohash, goroothash, disk, prior, calls>>
    /\ UNCHANGED pipelineVars

PkgSizeStep ==
    /\ run = "sizes"
    /\ Len(calls) < MaxCalls
    /\ \E dir \in CacheDirs \cup {<<"unsafe">>},
          io \in Faults :
         \E o \in {pkgSizeCall(dir, io)} :
           /\ pkgsizecache' = o.mem
           /\ disk' = o.disk
           /\ calls' = Append(calls, Call("build", dir, o))
           /\ run' \in (IF o.ok THEN {"sizes"} ELSE {"sizes", "fatal"})
    /\ UNCHANGED <<listcache, repohash, goroothash, prior>>
    /\ UNCHANGED pipelineVars

\* entries an earlier run wrote: for each identity none, both, or both with
\* the "go list" output cut short
PriorFiles(tag, how) ==
    LET D == {dir \in DOMAIN how : how[dir] # "absent"}
        dirOf(q) == CHOOSE dir \in D : cachePath(dir, tag) = q
        data(dir) == IF how[dir] = "garbage" /\ tag = "list" THEN Garbage
                     ELSE IF tag = "list" THEN listOut(dir, "rev0")
                     ELSE buildOut(5, 1)
    IN [q \in {cachePath(dir, tag) : dir \in D} |-> File("prior", data(dirOf(q)))]

\* the directory as an earlier run left it: no directory, or a record (or
\* none) and entries written then
PriorDisks ==
    {NoDisk} \cup
    {[exists |-> TRUE, glo |-> g, list |-> PriorFiles("list", how),
      build |-> PriorFiles("build", how), archive |-> {}] :
        g \in {[present |-> FALSE, data |-> <<>>]} \cup
              {[present |-> TRUE, data |-> gloRecord(r, h)] :
                    r \in Hashes, h \in Hashes},
        how \in [CacheDirs -> {"absent", "stale", "garbage"}]}

\* the cache specifications start with both memory tiers empty and leave the
\* graph out
CacheOnly ==
    /\ calls = <<>>
    /\ run = "first"
    /\ listcache = Empty
    /\ pkgsizecache = Empty
    /\ golistworld = Empty /\ sizeworld = Empty
    /\ inunsflag = FALSE /\ nostdflag = FALSE
    /\ nodes = Empty /\ labels = Empty /\ edges = <<>> /\ stack = <<>>
    /\ pc = "off" /\ listing = <<>> /\ pathto = Empty /\ k = 0
    /\ included = {} /\ cp = <<>> /\ cur = <<>> /\ cps = <<>>
    /\ failed = {} /\ report = <<>>
    /\ gomaxprocs = 1 /\ running = {} /\ sizing = {}

\* main() up to the call of populateNode, with the cache directory as an
\* earlier run left it
InitCacheRun ==
    /\ repohash \in Hashes
    /\ goroothash \in Hashes
    /\ disk \in PriorDisks
    /\ NoThreads
    /\ CacheOnly

InitCache == InitCacheRun /\ prior = disk

\* the same, keeping in mind the hashes of the run that wrote the record
InitWrote ==
    /\ InitCacheRun
    /\ \E r \in Hashes, h \in Hashes :
         /\ IF disk.glo.present THEN disk.glo.data = gloRecord(r, h)
            ELSE r = <<"x">> /\ h = <<"x">>
         /\ prior = ("wrote" :> <<r, h>>) @@ disk

NextCache == GoListStep \/ SizesStart \/ PkgSizeStep

SpecCache == InitCache /\ [][NextCache]_vars

SpecWrote == InitWrote /\ [][NextCache]_vars

\* =================================================================== claims
\* traceCritical has left its loop through the break
Traced == pc \in {"writecp", "write", "done"}
\* the second loop of markCriticalPaths is over
Pass2Done == (pc = "pass2" /\ k = Len(listing)) \/ pc \in {"trace", "panic"} \/ Traced

own(n) == nidPkgSize(n)
AllCostsPositive == \A n \in DOMAIN labels : own(n) >= 1
HasEdge(a, b) == \E e \in DOMAIN edges : edges[e].src = a /\ edges[e].sink = b
Succs(n) == {edges[e].sink : e \in {x \in DOMAIN edges : edges[x].src = n}}
IsLeaf(n) == Succs(n) = {}
SetMax(S) == CHOOSE x \in S : \A y \in S : y <= x

RECURSIVE SumOwn(_)
\* the sum of the own costs of a sequence of node ids
SumOwn(ns) == IF Len(ns) = 0 THEN 0 ELSE own(ns[1]) + SumOwn(Tail(ns))

cpNids == [i \in DOMAIN cp |-> cp[i].nid]

RECURSIVE AllPaths(_)
\* every walk from n down to a leaf, as a sequence of node ids
AllPaths(n) ==
    IF IsLeaf(n) THEN {<<n>>}
    ELSE UNION {{<<n>> \o q : q \in AllPaths(m)} : m \in Succs(n)}

RECURSIVE ReachFrom(_)
\* the nodes reachable from a set of nodes
ReachFrom(S) ==
    LET T == S \cup UNION {Succs(n) : n \in S}
    IN IF T = S THEN S ELSE ReachFrom(T)

Pos(seq, x) == CHOOSE i \in DOMAIN seq : seq[i] = x

\* C1: with all costs >= 1, the reconstructed path starts at the root, follows
\* edges of the graph, ends at a node without out-edges, and the own costs of
\* its nodes sum to pathto[root].
C1_PathIsWalk ==
    (Traced /\ AllCostsPositive) =>
        /\ Len(cp) >= 1
        /\ cp[1].nid = rootnid
        /\ \A i \in 1..(Len(cp) - 1) : HasEdge(cp[i].nid, cp[i + 1].nid)
        /\ IsLeaf(cp[Len(cp)].nid)
        /\ SumOwn(cpNids) = pathto[rootnid]

C1_Witness ==
    /\ Traced /\ AllCostsPositive
    /\ Len(cp) = 3
    /\ Cardinality(Succs(rootnid)) = 2

\* C2: with all costs >= 1, no walk from the root to a leaf costs more than
\* the reconstructed path.
C2_PathIsMaximal ==
    (Traced /\ AllCostsPositive) =>
        \A q \in AllPaths(rootnid) : SumOwn(q) <= SumOwn(cpNids)

C2_Witness ==
    /\ Traced /\ AllCostsPositive
    /\ Len(cp) = 3
    /\ \E q \in AllPaths(rootnid) : SumOwn(q) < SumOwn(cpNids)

\* C3: after pass 2 every node has pathto >= its own cost, and a node with
\* successors has pathto = own cost + the largest pathto of a successor.
C3_PathtoRecurrence ==
    Pass2Done =>
        \A n \in ReachFrom({rootnid}) :
            /\ n \in DOMAIN pathto
            /\ pathto[n] >= own(n)
            /\ ~IsLeaf(n) =>
                 pathto[n] = own(n) + SetMax({pathto[m] : m \in Succs(n)})

C3_Witness ==
    /\ Pass2Done
    /\ \E n \in ReachFrom({rootnid}) :
         /\ Cardinality(Succs(n)) = 2
         /\ \E a, b \in Succs(n) : pathto[a] < pathto[b]
         /\ pathto[n] > own(n)

\* C4: after pass 2 every node without out-edges has pathto = its own cost.
C4_LeafPathto ==
    Pass2Done =>
        \A n \in ReachFrom({rootnid}) : IsLeaf(n) => pathto[n] = own(n)

C4_Witness ==
    /\ Pass2Done
    /\ \E n \in ReachFrom({rootnid}) :
         /\ IsLeaf(n) /\ n # rootnid /\ own(n) > 0
         /\ Cardinality({e \in DOMAIN edges : edges[e].sink = n}) = 2

\* markCriticalPaths has its listing
Sorted == pc \notin {"populate", "sizes", "weights", "topsort"}

\* C5: topsort lists every node reachable from the root exactly once, and the
\* source of every edge before its target.
C5_TopsortValid ==
    Sorted =>
        /\ Range(listing) = ReachFrom({rootnid})
        /\ Len(listing) = Cardinality(ReachFrom({rootnid}))
        /\ \A e \in DOMAIN edges :
             Pos(listing, edges[e].src) < Pos(listing, edges[e].sink)

C5_Witness ==
    /\ Sorted
    /\ Len(listing) = 3
    /\ Len(edges) = 3
    /\ edges[1].sink = listing[3]

\* C8: a root without out-edges gives a path of one segment, the root, no
\* edge marked critical, and a total cost equal to the root's own cost.
C8_RootOnly ==
    (Traced /\ IsLeaf(rootnid)) =>
        /\ Len(cp) = 1
        /\ cp[1].nid = rootnid
        /\ \A e \in DOMAIN edges : "color" \notin DOMAIN edges[e].attrs
        /\ SumOwn(cpNids) = own(rootnid)
        /\ pathto[rootnid] = own(rootnid)
        /\ (pc # "writecp" => (Len(cps) = 1 /\ cps[1].weight = own(rootnid)))

C8_Witness ==
    /\ pc = "done" /\ IsLeaf(rootnid)
    /\ listcache[target].Imports # <<>>
    /\ own(rootnid) > 0
    /\ Len(cps) = 1

\* the packages of the reconstructed path
cpPkgs == [i \in DOMAIN cp |-> cp[i].pkg[2]]

\* C6: the README's graph with the imports in the order listed and S = 3:
\* the reported path is P, R, T and costs 50.
C6_ReadmePRT ==
    ( /\ Traced
      /\ listcache["P"].Imports = <<"Q", "R">>
      /\ listcache["Q"].Imports = <<"S", "T">>
      /\ pkgsizecache["S"] = 3 )
    => (cpPkgs = <<"P", "R", "T">> /\ SumOwn(cpNids) = 50)

\* C7: the README's graph with S = 99, the imports in any order: the
\* reported path is P, Q, S and costs 120.
C7_ReadmePQS ==
    (Traced /\ pkgsizecache["S"] = 99)
    => (cpPkgs = <<"P", "Q", "S">> /\ SumOwn(cpNids) = 120 /\ pathto[rootnid] = 120)

C7_Witness ==
    /\ pc = "done" /\ pkgsizecache["S"] = 99
    /\ listcache["P"].Imports = <<"R", "Q">>
    /\ listcache["Q"].Imports = <<"T", "S">>
    /\ cpPkgs = <<"P", "Q", "S">>


\* -------------------------------------------------------------- the cache
\* the record the run found differs from the one initCache would write now
Mismatch == prior.glo.present /\ prior.glo.data # gloRecord(repohash, goroothash)

\* a result is what the toolchain of this run answers
Fresh(c) ==
    IF c.kind = "list" THEN c.val = Unmarshal(listOut(c.dir, "rev1")).pkg
    ELSE IF c.dir = <<"unsafe">> THEN c.val = [sz |-> 1, nf |-> 0]
    ELSE c.val = Sscanf2(buildOut(toolSize(c.dir), 2)).pi

\* the earlier run left an entry for the key of call c
HadEntry(c) == cachePath(c.dir, c.kind) \in DOMAIN Files(prior, c.kind)

\* C9: if the record found in the cache directory differs from this run's
\* record, no call of goList or pkgSize of the run, the first one included,
\* returns an entry the earlier run wrote: no call is a disk hit on such an
\* entry, and every result returned is the toolchain's answer of this run.
C9_NoStaleHit ==
    Mismatch =>
        \A i \in 1..Len(calls) :
            /\ calls[i].hit # "prior"
            /\ calls[i].ok => Fresh(calls[i])

\* a mismatch, the first lookup went through, and a later call for another
\* key the earlier run had an entry for returned a result
C9_Witness ==
    /\ Mismatch
    /\ Len(calls) >= 2
    /\ calls[1].ok /\ HadEntry(calls[1])
    /\ \E i \in 2..Len(calls) :
          calls[i].ok /\ calls[i].dir # calls[1].dir /\ HadEntry(calls[i])

SameKey(i, j) == calls[i].kind = calls[j].kind /\ calls[i].dir = calls[j].dir

\* C10: over the calls of goList and pkgSize of one process, failing ones
\* included, an identity causes at most one run of the toolchain per kind of
\* query, and all calls for an identity return the same result.
C10_Idempotent ==
    \A i, j \in 1..Len(calls) :
        (i < j /\ SameKey(i, j)) =>
            /\ ~(calls[i].invoked /\ calls[j].invoked)
            /\ calls[i].ok = calls[j].ok
            /\ calls[i].val = calls[j].val


\* ---------------------------------------------------------- failing queries
Returned == pc # "populate"

\* C11: once populateNode(target) has returned, a failed "go list" query of
\* it, in a goroutine of a first loop or in a second loop, means that it
\* returned an error: main has ended the run with the error of such a query.
C11_QueryFailureReturned ==
    (Returned /\ \E f \in failed : f.kind = "list") =>
        /\ pc = "fatal"
        /\ \E f \in failed : f.kind = "list" /\ report = <<"list", f.dir>>

Weighed == pc \notin {"populate", "sizes", "weights"}

\* C12: once computeEdgeWeights is over, a failed size query of a node, the
\* root included, means that it returned an error and that main has ended
\* the run reporting the error of such a query.
C12_SizeFailureReported ==
    (Weighed /\ \E f \in failed : f.kind = "size") =>
        /\ pc = "fatal"
        /\ \E f \in failed : f.kind = "size" /\ report = <<"size", f.dir>>

\* C13: a failure during the reconstruction of the path, the failure to
\* write the path to the cache included, ends the run with that error: the
\* graph is not emitted.
C13_TraceFailureFatal ==
    (\E f \in failed : f.kind = "cpath") =>
        /\ pc = "fatal"
        /\ report = <<"cpath", labels[rootnid][2]>>

\* computeEdgeWeights has returned nil
WeighedOk == Weighed /\ pc # "fatal"

\* C14: after computeEdgeWeights has returned without error every edge has a
\* label EdgeWeight can read, and the weight read is the size of the package
\* of the edge's sink.
C14_EdgesWeighed ==
    WeighedOk =>
        \A e \in DOMAIN edges :
            /\ EdgeWeight(edges[e]).ok
            /\ EdgeWeight(edges[e]).wt = nidPkgSize(edges[e].sink)

\* traceCritical has followed an edge of a graph of several edges whose
\* sinks differ in size
C14_Witness ==
    /\ pc = "trace" /\ Len(cp) >= 2
    /\ \E e1, e2 \in DOMAIN edges :
          nidPkgSize(edges[e1].sink) # nidPkgSize(edges[e2].sink)

\* ------------------------------------------------------------ populateNode
\* C15: on any import relation, cyclic ones included, populateNode never
\* reaches its panic; a package made a node gets the number of nodes made
\* before it as its index, and no step changes or removes an index.
C15_InsertOnce ==
    [][ /\ pc' # "panic"
        /\ \A p \in DOMAIN nodes : p \in DOMAIN nodes' /\ nodes'[p] = nodes[p]
        /\ \A p \in DOMAIN nodes' \ DOMAIN nodes :
              nodes'[p] = Cardinality(DOMAIN nodes)
        /\ \A p, q \in DOMAIN nodes' : nodes'[p] = nodes'[q] => p = q ]_vars

\* populateNode(target) has returned on a relation with a cycle through the
\* target and another package
C15_Witness ==
    /\ pc = "sizes"
    /\ Cardinality(DOMAIN nodes) >= 2
    /\ \E e \in DOMAIN edges : edges[e].sink = rootnid /\ edges[e].src # rootnid

\* ------------------------------------------------------------- the batches
MaxProcs == 4       \* largest runtime.GOMAXPROCS(0)

\* what no goroutine of a batch changes
world == <<golistworld, sizeworld, inunsflag, nostdflag, repohash, goroothash,
           disk, prior, calls, run, failed, report, gomaxprocs, procs, mu,
           audit>>

\* sema <- struct{}{} as a bug would have it: the send never blocks
semaFree_Unbounded(cap, held) == TRUE

\* sema <- struct{}{} goes through while the channel's buffer has room
semaFree(cap, held) == Cardinality(held) < cap

\* a goroutine of populateNode's first loop takes a slot of sema
WorkerAcquire ==
    /\ pc = "populate" /\ top.phase = "loop"
    /\ \E dep \in top.pending \ running :
         /\ semaFree(gomaxprocs, running)
         /\ running' = running \cup {dep}
    /\ UNCHANGED world
    /\ UNCHANGED <<listcache, pkgsizecache, nodes, labels, edges, stack, pc,
                   sizing>>
    /\ UNCHANGED engineVars

\* it runs goList(pk), gives the slot back and calls wg.Done()
WorkerFinish ==
    /\ pc = "populate" /\ top.phase = "loop"
    /\ \E dep \in top.pending \cap running :
         \E pk \in goList(dep) :
            /\ listcache' = (dep :> pk) @@ listcache
            /\ running' = running \ {dep}
            /\ stack' = SetTop([top EXCEPT !.pending = @ \ {dep}])
    /\ UNCHANGED world
    /\ UNCHANGED <<pkgsizecache, nodes, labels, edges, pc, sizing>>
    /\ UNCHANGED engineVars

\* computeEdgeWeights: wg.Add(len(g.nodes)) and one goroutine per node
SizeSpawn ==
    /\ pc = "sizes"
    /\ sizing' = DOMAIN nodes
    /\ pc' = "sizejoin"
    /\ UNCHANGED world
    /\ UNCHANGED <<listcache, pkgsizecache, nodes, labels, edges, stack,
                   running>>
    /\ UNCHANGED engineVars

\* a goroutine of computeEdgeWeights takes a slot of its sema
SizeAcquire ==
    /\ pc = "sizejoin"
    /\ \E p \in sizing \ running :
         /\ semaFree(gomaxprocs \div 2, running)
         /\ running' = running \cup {p}
    /\ UNCHANGED world
    /\ UNCHANGED <<listcache, pkgsizecache, nodes, labels, edges, stack, pc,
                   sizing>>
    /\ UNCHANGED engineVars

\* it runs PkgSize(pk), gives the slot back and calls wg.Done()
SizeFinish ==
    /\ pc = "sizejoin"
    /\ \E p \in sizing \cap running :
         /\ \/ p = "unsafe" /\ pkgsizecache' = pkgsizecache
            \/ /\ p # "unsafe"
               /\ \E sz \in sizeworld[p] :
                     pkgsizecache' = (p :> sz) @@ pkgsizecache
         /\ running' = running \ {p}
         /\ sizing' = sizing \ {p}
    /\ UNCHANGED world
    /\ UNCHANGED <<listcache, nodes, labels, edges, stack, pc>>
    /\ UNCHANGED engineVars

\* wg.Wait() of computeEdgeWeights returns
SizeJoin ==
    /\ pc = "sizejoin"
    /\ Wait(sizing)
    /\ pc' = "weights"
    /\ UNCHANGED world
    /\ UNCHANGED <<listcache, pkgsizecache, nodes, labels, edges, stack,
                   running, sizing>>
    /\ UNCHANGED engineVars

\* a source tree without pseudo or standard packages, any number of
\* processors
InitBatch ==
    /\ inunsflag = FALSE
    /\ nostdflag = FALSE
    /\ golistworld = Tree(MaxPkgs + 1, {})
    /\ sizeworld = [p \in Pkgs |-> {MaxSize}]
    /\ gomaxprocs \in 1..MaxProcs
    /\ InitRun

NextBatch ==
    \/ PopulateEnter
    \/ WorkerAcquire
    \/ WorkerFinish
    \/ LoopRecurse
    \/ LoopEdge
    \/ PopulateReturn
    \/ SizeSpawn
    \/ SizeAcquire
    \/ SizeFinish
    \/ SizeJoin
    \/ ApplyEdgeWeights
    \/ Topsort
    \/ PathInit
    \/ Pass2Step
    \/ TraceInit
    \/ TraceBreak
    \/ TraceStep
    \/ WriteCP
    \/ WriteGraph

SpecBatch == InitBatch /\ [][NextBatch]_vars

\* the Go scheduler runs every goroutine that can run, and every query
\* comes back
SpecBatchFair == SpecBatch /\ WF_vars(NextBatch)

\* C16: during a warm-up batch of populateNode the goroutines that hold a
\* slot of sema, and so may be inside goList, number at most GOMAXPROCS.
C16_WarmupBounded ==
    pc = "populate" => Cardinality(running) <= gomaxprocs

C16_Witness ==
    /\ pc = "populate"
    /\ gomaxprocs = 1
    /\ Cardinality(top.pending) = 2
    /\ Cardinality(running) = 1

\* the edges that carry a weight
Labelled(es) == {e \in DOMAIN es : "label" \in DOMAIN es[e].attrs}

\* the steps between the entry of markCriticalPaths and its return
InMark == pc \in {"topsort", "pathinit", "pass2", "trace"}

\* C17: a step of populateNode that adds a node or an edge is taken while no
\* goroutine of a first loop is pending or holds a slot; a step that gives
\* an edge its weight is taken after wg.Wait() of computeEdgeWeights, with
\* no size goroutine left; a step of markCriticalPaths is taken with every
\* edge weighed.
C17_BatchesOrdered ==
    [][ /\ (pc = "populate" /\ (nodes' # nodes \/ edges' # edges))
           => /\ running = {}
              /\ \A i \in DOMAIN stack : stack[i].pending = {}
        /\ (Labelled(edges') # Labelled(edges))
           => /\ pc = "weights"
              /\ running = {}
              /\ sizing = {}
        /\ InMark => Labelled(edges) = DOMAIN edges
      ]_vars

C17_Witness ==
    /\ pc = "pass2"
    /\ gomaxprocs = MaxProcs
    /\ Len(edges) >= 2
    /\ Labelled(edges) = DOMAIN edges
    /\ DOMAIN pkgsizecache = DOMAIN nodes

\* a first loop of populateNode has launched its goroutines
WarmLaunched == pc = "populate" /\ top.phase = "loop"

\* wg.Wait() of that loop has returned
WarmJoined == pc # "populate" \/ Wait(top.pending)

\* C18: whatever GOMAXPROCS >= 1 is, a warm-up batch that was launched
\* reaches the return of its wg.Wait(), and so does the size batch of
\* computeEdgeWeights.
C18_BatchesJoin ==
    /\ WarmLaunched ~> WarmJoined
    /\ (pc = "sizejoin") ~> (pc = "weights")

\* ------------------------------------------------ the graph of populateNode
\* "go list" prints the imports sorted: "C" first, "unsafe" last
ImportList(S) ==
    (IF "C" \in S THEN <<"C">> ELSE <<>>)
    \o SortedSeq(S \ Pseudo)
    \o (IF "unsafe" \in S THEN <<"unsafe">> ELSE <<>>)

\* a source tree with sorted import lists; the packages from position stdfrom
\* on are standard library
SortedTree(stdfrom) ==
    [p \in Pkgs \cup {"unsafe"} |->
        IF p = "unsafe" THEN {Pkg(TRUE, p, <<>>)}
        ELSE {Pkg(PkgIndex(p) >= stdfrom, p, ImportList(S)) :
                 S \in SUBSET (Later(p) \cup Pseudo)}]

\* any flags, the target itself may be a standard package
InitListed ==
    /\ inunsflag \in BOOLEAN
    /\ nostdflag \in BOOLEAN
    /\ \E stdfrom \in 1..(MaxPkgs + 1) : golistworld = SortedTree(stdfrom)
    /\ sizeworld = [p \in Pkgs |-> Sizes]
    /\ InitState

SpecListed == InitListed /\ [][NextPopulate]_vars

\* populateNode(target) has returned nil
Populated == pc = "sizes"

\* the import relation as "go list" has answered it in this run
Direct ==
    {ab \in (DOMAIN listcache) \X (Pkgs \cup Pseudo) :
        ab[2] \in Range(listcache[ab[1]].Imports)}

\* the standard library packages of the source tree
Std == {p \in DOMAIN golistworld : \E pk \in golistworld[p] : pk.Standard}

\* the imports that are not pseudo packages: never "C", and "unsafe" only
\* with -include-unsafe
NonPseudo ==
    {ab \in Direct : ab[2] # "C" /\ (ab[2] = "unsafe" => inunsflag)}

\* the imports that the second loop follows
Followed == {ab \in NonPseudo : ~(nostdflag /\ ab[2] \in Std)}

RECURSIVE ReachVia(_, _)
\* the packages reachable from those of S through the relation R
ReachVia(R, S) ==
    LET T == S \cup {ab[2] : ab \in {x \in R : x[1] \in S}}
    IN IF T = S THEN S ELSE ReachVia(R, T)

\* the edges of the graph as pairs of packages
EdgePairs == {<<labels[edges[e].src][2], labels[edges[e].sink][2]>> : e \in DOMAIN edges}

\* the graph is the part of R that the target reaches, each pair one edge
GraphIs(R) ==
    LET N == ReachVia(R, {target}) IN
    /\ DOMAIN nodes = N
    /\ EdgePairs = {ab \in R : ab[1] \in N}
    /\ Cardinality(EdgePairs) = Len(edges)

\* C19 as stated: after populateNode(target) has returned nil the nodes
\* are the packages reachable from the target through non-pseudo imports,
\* and the edges are those imports, one edge each.
C19_GraphExact == Populated => GraphIs(NonPseudo)

\* C19 amended: after populateNode(target) has returned nil the nodes are
\* the packages reachable from the target through the imports that are not
\* pseudo packages and, under -nostd, not standard library packages, and the
\* edges are those imports between nodes, one edge each.
C19_GraphFollowed == Populated => GraphIs(Followed)

C19_Witness ==
    /\ Populated
    /\ nostdflag /\ inunsflag
    /\ Followed # NonPseudo
    /\ Cardinality(DOMAIN nodes) >= 2
    /\ \E ab \in Direct : ab[2] = "C"

\* every goroutine that can run is run, and every "go list" comes back
SpecListedFair == SpecListed /\ WF_vars(NextPopulate)

\* C20: on an acyclic import relation populateNode(target) returns: every
\* activation has left the stack.
C20_PopulateTerminates == <>(pc # "populate" /\ stack = <<>>)

C20_Witness ==
    /\ pc = "sizes" /\ stack = <<>>
    /\ Cardinality(DOMAIN nodes) = MaxPkgs
    /\ Len(edges) > MaxPkgs - 1

\* ------------------------------------------------------------ traceCritical
\* pathto of the target of the i-th out-edge of node n
sinkPt(n, i) == Get(pathto, edges[GetEdges(edges, n)[i]].sink)

\* the first out-edge of n whose target has the largest pathto
FirstBest(n) ==
    LET out == GetEdges(edges, n)
        mx == SetMax({sinkPt(n, i) : i \in DOMAIN out})
    IN out[CHOOSE i \in DOMAIN out :
               /\ sinkPt(n, i) = mx
               /\ \A j \in 1..(i - 1) : sinkPt(n, j) < mx]

\* traceCritical moves from cur to a successor
Advances == pc = "trace" /\ cur' # cur

\* C21: whenever traceCritical moves on from the current node, it moves to
\* the target of the first of the node's out-edges, in the order GetEdges
\* hands them out, whose target has the largest pathto of all the targets.
C21_FirstBestChosen ==
    [][ Advances =>
          /\ cur' = edges[FirstBest(cur)].sink
          /\ cp' = Append(cp, cp'[Len(cp')])
          /\ cp'[Len(cp')].nid = cur'
          /\ \A i \in DOMAIN GetEdges(edges, cur) :
                sinkPt(cur, i) <= Get(pathto, cur')
      ]_vars

C21_Witness ==
    /\ pc = "trace" /\ Len(cp) = 2
    /\ \E i, j \in DOMAIN GetEdges(edges, rootnid) :
          /\ i < j
          /\ sinkPt(rootnid, i) = sinkPt(rootnid, j)
          /\ sinkPt(rootnid, i) > 0
          /\ cp[2].nid = edges[GetEdges(edges, rootnid)[i]].sink

\* node n has out-edges and the target of each of them has pathto zero
ZeroTargets(n) ==
    /\ GetEdges(edges, n) # <<>>
    /\ \A i \in DOMAIN GetEdges(edges, n) : sinkPt(n, i) = 0

\* C22: a step of traceCritical ends in the panic exactly when the current
\* node has out-edges and every target of them has pathto zero; the panic
\* leaves the edges and the segments as they were, and it needs a node whose
\* own cost is below one.
C22_PanicIffZeroTargets ==
    [][ pc = "trace" =>
          /\ (pc' = "panic") <=> ZeroTargets(cur)
          /\ (pc' = "panic") =>
                /\ edges' = edges
                /\ cp' = cp
                /\ \E n \in DOMAIN labels : own(n) < 1
      ]_vars

C22_Witness ==
    /\ pc = "panic"
    /\ Len(cp) = 2
    /\ cur # rootnid
    /\ ZeroTargets(cur)
    /\ \A e \in DOMAIN edges :
          edges[e].src = cur => "color" \notin DOMAIN edges[e].attrs

\* the edges that carry the critical marker
Marked == {e \in DOMAIN edges : "color" \in DOMAIN edges[e].attrs}

\* the edges from a segment of the path to the next one
OnPath ==
    {e \in DOMAIN edges :
        \E i \in 1..(Len(cp) - 1) :
            edges[e].src = cp[i].nid /\ edges[e].sink = cp[i + 1].nid}

\* C23: once traceCritical has left its loop the marked edges are the edges
\* from one segment to the next, one fewer than there are segments, and no
\* step of traceCritical changes the weight of an edge.
C23_MarksOnPathOnly ==
    /\ [](Traced => (Marked = OnPath /\ Cardinality(Marked) = Len(cp) - 1))
    /\ [][ pc = "trace" =>
              \A e \in DOMAIN edges :
                  /\ e \in DOMAIN edges'
                  /\ EdgeWeight(edges'[e]) = EdgeWeight(edges[e])
                  /\ EdgeWeight(edges'[e]).ok
         ]_vars

C23_Witness ==
    /\ Traced
    /\ Len(cp) = 3
    /\ Len(edges) = 3
    /\ Cardinality(Marked) = 2
    /\ \E e \in DOMAIN edges \ Marked : EdgeWeight(edges[e]).wt > 0

\* C24 as stated: once traceCritical has left its loop every segment of cp,
\* the root's included, has as its wt the own cost of its node.
C24_SegmentsOwnCost ==
    Traced => \A i \in DOMAIN cp : cp[i].wt = own(cp[i].nid)

\* C24 amended: once traceCritical has left its loop the root's segment has
\* wt zero and every later segment has as its wt the own cost of its node;
\* the path as writeCP writes it has one line per segment, each with the own
\* cost of the segment's node, the root's included.
C24_SegmentsAndLines ==
    Traced =>
        /\ cp[1].nid = rootnid /\ cp[1].wt = 0
        /\ \A i \in 2..Len(cp) : cp[i].wt = own(cp[i].nid)
        /\ pc # "writecp" =>
              /\ Len(cps) = Len(cp)
              /\ \A i \in DOMAIN cp :
                    /\ cps[i].pkg = cp[i].pkg
                    /\ cps[i].weight = own(cp[i].nid)

C24_Witness ==
    /\ pc = "done"
    /\ Len(cp) = 3
    /\ own(rootnid) > 0
    /\ cp[1].wt = 0
    /\ cps[1].weight = own(rootnid)
    /\ cp[2].wt > 0 /\ cp[2].wt < Get(pathto, cp[2].nid)

\* ---------------------------------------------------------------- cacheValid
\* the run found a record, written by a run with another pair of hashes
PairDiffers == prior.glo.present /\ prior.wrote # <<repohash, goroothash>>

\* C27: if the pair of hashes recorded when the cache was initialized
\* differs from this run's pair in either component, the cache is not kept:
\* no call of the run is a disk hit on an entry of the earlier run, and after
\* the first lookup has gone through no such entry is left.
C27_PairCompared ==
    PairDiffers =>
        /\ \A i \in 1..Len(calls) : calls[i].hit # "prior"
        /\ (Len(calls) >= 1 /\ calls[1].ok) =>
              \A tag \in {"list", "build"} :
                 \A q \in DOMAIN Files(disk, tag) : Files(disk, tag)[q].era # "prior"

\* ------------------------------------------------------------ the memory tier
\* the memory tier of a kind of query
MemTier(kind) == IF kind = "list" THEN listcache ELSE pkgsizecache

\* a call before the j-th one asked the same and came back with a result
\* that it did not take from the memory tier
Succeeded(j) ==
    \E i \in 1..(j - 1) :
        /\ calls[i].kind = calls[j].kind
        /\ calls[i].dir = calls[j].dir
        /\ calls[i].ok
        /\ calls[i].hit # "mem"

\* C28: a call of goList or pkgSize that fails leaves no entry for its
\* identity in the memory tier unless an earlier call for it succeeded, and
\* a call answered from the memory tier comes after a successful query.
C28_FailureNotMemoized ==
    /\ \A j \in 1..Len(calls) :
          (calls[j].ok /\ calls[j].hit = "mem") => Succeeded(j)
    /\ (Len(calls) >= 1 /\ ~calls[Len(calls)].ok /\ ~Succeeded(Len(calls)))
          => calls[Len(calls)].dir \notin DOMAIN MemTier(calls[Len(calls)].kind)

\* -------------------------------------------------------------- the threads
\* SpecThreads: populateNode(target) for a target whose imports import
\* nothing, then computeEdgeWeights, with goList and pkgSize taken one
\* statement at a time, so that the goroutines of a batch interleave.
MaxDeps == 2        \* most imports of the target

ThreadDirs == {CacheDirNames[i] : i \in 1..(MaxDeps + 1)}
DepDirs == ThreadDirs \ {ctarget}

\* a call of goList (kind "list") or pkgSize (kind "build") about to start,
\* with the locals of the thread that makes it
Thread(kind, dir, imps, i) ==
    [kind |-> kind, dir |-> dir, pc |-> "lock1", hit |-> FALSE,
     needsinit |-> FALSE, miss |-> FALSE, out |-> <<>>, ok |-> TRUE,
     imps |-> imps, i |-> i]

main == procs[0]
Workers == DOMAIN procs \ {0}

\* the goroutine as a bug would have it: the closure reads the loop
\* variable, which has moved on to the last element
workerDir_Captured(list, i) == list[Len(list)]

\* go func(pk string) { ... }(dep): the goroutine gets its own element
workerDir(list, i) == list[i]

\* one goroutine per element of the list, main waiting for them
spawn(kind, list) ==
    (0 :> [main EXCEPT !.pc = "wait"]) @@
    [w \in 1..Len(list) |->
        [Thread(kind, workerDir(list, w), <<>>, 0) EXCEPT !.pc = "sema"]]

\* mu.Lock() as a bug would have it: it never waits
mutexFree_Always(holders) == TRUE

\* mu.Lock() goes through when nobody holds the mutex
mutexFree(holders) == holders = {}

threadVars == <<golistworld, sizeworld, inunsflag, nostdflag, nodes, labels,
                edges, stack, pc, listing, pathto, k, included, cp, cur, cps,
                failed, report, running, sizing, repohash, goroothash, prior,
                calls>>

\* the goroutines that hold a slot of sema; the deferred receive gives the
\* slot back as the call returns
Holders == {v \in Workers : procs[v].pc \notin {"sema", "done"}}

\* sema <- struct{}{}: GOMAXPROCS slots in populateNode, half of them in
\* computeEdgeWeights
Acquire(w) ==
    /\ w \in Workers
    /\ procs[w].pc = "sema"
    /\ semaFree(IF procs[w].kind = "list" THEN gomaxprocs
                ELSE gomaxprocs \div 2, Holders)
    /\ procs' = [procs EXCEPT ![w].pc = "lock1"]
    /\ UNCHANGED <<listcache, pkgsizecache, disk, audit, run, mu>>
    /\ UNCHANGED <<threadVars, gomaxprocs>>

\* listcachemu.Lock(), pkgsizecachemu.Lock()
Lock(w) ==
    /\ procs[w].pc \in {"lock1", "lock2"}
    /\ mutexFree(mu[procs[w].kind])
    /\ mu' = [mu EXCEPT ![procs[w].kind] = @ \cup {w}]
    /\ procs' = [procs EXCEPT ![w].pc = IF @ = "lock1" THEN "look" ELSE "store"]
    /\ UNCHANGED <<listcache, pkgsizecache, disk, audit, run>>
    /\ UNCHANGED <<threadVars, gomaxprocs>>

\* cpk, ok := listcache[dir]; cachedv, ok := pkgsizecache[dir]
Look(w) ==
    /\ procs[w].pc = "look"
    /\ procs' = [procs EXCEPT
                   ![w].hit = IF procs[w].kind = "list"
                              THEN procs[w].dir \in DOMAIN listcache
                              ELSE procs[w].dir \in DOMAIN pkgsizecache,
                   ![w].pc = "unlock1"]
    /\ UNCHANGED <<listcache, pkgsizecache, disk, audit, run, mu>>
    /\ UNCHANGED <<threadVars, gomaxprocs>>

\* listcache[dir] = pk; pkgsizecache[dir] = pi
Store(w) ==
    /\ procs[w].pc = "store"
    /\ IF procs[w].kind = "list"
       THEN /\ listcache' = (procs[w].dir :> Unmarshal(procs[w].out).pkg) @@ listcache
            /\ pkgsizecache' = pkgsizecache
       ELSE /\ pkgsizecache' = (procs[w].dir :> Sscanf2(procs[w].out).pi) @@ pkgsizecache
            /\ listcache' = listcache
    /\ procs' = [procs EXCEPT ![w].pc = "unlock2"]
    /\ UNCHANGED <<disk, audit, run, mu>>
    /\ UNCHANGED <<threadVars, gomaxprocs>>

\* Unlock(); after the lookup a hit returns, after the store goList on its
\* miss path goes on to writeCache and every other call returns
Unlock(w) ==
    /\ procs[w].pc \in {"unlock1", "unlock2"}
    /\ mu' = [mu EXCEPT ![procs[w].kind] = @ \ {w}]
    /\ procs' = [procs EXCEPT ![w].pc =
                   IF @ = "unlock1"
                   THEN (IF procs[w].hit THEN "done" ELSE "mkdir")
                   ELSE (IF procs[w].kind = "list" /\ procs[w].miss
                         THEN "writecache" ELSE "done")]
    /\ UNCHANGED <<listcache, pkgsizecache, disk, audit, run>>
    /\ UNCHANGED <<threadVars, gomaxprocs>>

\* the thread returns an error
fails(w) == [procs EXCEPT ![w].ok = FALSE, ![w].pc = "done"]

\* the entries written in this run that are in the directory
RunEntries ==
    UNION {{q \in DOMAIN Files(disk, tag) : Files(disk, tag)[q].era = "run"} :
             tag \in {"list", "build"}}

\* tryCache: os.Mkdir(*glcacheflag, 0777)
Mkdir(w) ==
    /\ procs[w].pc = "mkdir"
    /\ disk' = IF disk.exists THEN disk ELSE Cleared
    /\ procs' = [procs EXCEPT ![w].needsinit = ~disk.exists, ![w].pc = "readglo"]
    /\ UNCHANGED <<listcache, pkgsizecache, audit, run, mu>>
    /\ UNCHANGED <<threadVars, gomaxprocs>>

\* cacheValid: os.ReadFile of the record and the comparison with want
ReadGlo(w) ==
    /\ procs[w].pc = "readglo"
    /\ procs' =
         IF ~disk.exists \/ ~disk.glo.present
         THEN [procs EXCEPT ![w].needsinit = TRUE, ![w].pc = "initopen"]
         ELSE IF disk.glo.data # repohash \o goroothash
         THEN [procs EXCEPT ![w].pc = "removeall"]
         ELSE [procs EXCEPT ![w].pc = IF procs[w].needsinit THEN "initopen"
                                      ELSE "readfile"]
    /\ UNCHANGED <<listcache, pkgsizecache, disk, audit, run, mu>>
    /\ UNCHANGED <<threadVars, gomaxprocs>>

\* cacheValid: os.RemoveAll(*glcacheflag)
RemoveAll(w) ==
    /\ procs[w].pc = "removeall"
    /\ disk' = NoDisk
    /\ audit' = IF disk.exists
                THEN [discards |-> audit.discards + 1,
                      lost |-> audit.lost \cup RunEntries]
                ELSE audit
    /\ procs' = [procs EXCEPT ![w].pc = "remkdir"]
    /\ UNCHANGED <<listcache, pkgsizecache, run, mu>>
    /\ UNCHANGED <<threadVars, gomaxprocs>>

\* cacheValid: os.Mkdir(*glcacheflag, 0777), an error if it is there again
ReMkdir(w) ==
    /\ procs[w].pc = "remkdir"
    /\ IF disk.exists
       THEN /\ procs' = fails(w)
            /\ disk' = disk
       ELSE /\ procs' = [procs EXCEPT ![w].needsinit = TRUE, ![w].pc = "initopen"]
            /\ disk' = Cleared
    /\ UNCHANGED <<listcache, pkgsizecache, audit, run, mu>>
    /\ UNCHANGED <<threadVars, gomaxprocs>>

\* initCache: os.OpenFile with O_CREATE|O_TRUNC leaves an empty record
InitOpen(w) ==
    /\ procs[w].pc = "initopen"
    /\ IF ~disk.exists
       THEN /\ procs' = fails(w)
            /\ disk' = disk
       ELSE /\ procs' = [procs EXCEPT ![w].pc = "initwrite"]
            /\ disk' = [disk EXCEPT !.glo = [present |-> TRUE, data |-> <<>>]]
    /\ UNCHANGED <<listcache, pkgsizecache, audit, run, mu>>
    /\ UNCHANGED <<threadVars, gomaxprocs>>

\* initCache: fmt.Fprintf of both hashes and Close; a file that was removed
\* in the meantime takes the write with it
InitWrite(w) ==
    /\ procs[w].pc = "initwrite"
    /\ disk' = IF disk.exists /\ disk.glo.present
               THEN [disk EXCEPT !.glo.data = gloRecord(repohash, goroothash)]
               ELSE disk
    /\ procs' = [procs EXCEPT ![w].pc = "readfile"]
    /\ UNCHANGED <<listcache, pkgsizecache, audit, run, mu>>
    /\ UNCHANGED <<threadVars, gomaxprocs>>

\* tryCache: os.ReadFile(cachePath(dir, tag)); no file is a miss
ReadFile(w) ==
    /\ procs[w].pc = "readfile"
    /\ LET q == cachePath(procs[w].dir, procs[w].kind) IN
         procs' =
           IF disk.exists /\ q \in DOMAIN Files(disk, procs[w].kind)
           THEN [procs EXCEPT ![w].out = Files(disk, procs[w].kind)[q].data,
                              ![w].pc = "parse"]
           ELSE [procs EXCEPT ![w].miss = TRUE, ![w].pc = "gorun"]
    /\ UNCHANGED <<listcache, pkgsizecache, disk, audit, run, mu>>
    /\ UNCHANGED <<threadVars, gomaxprocs>>

\* the miss path: goListUncached, or "go build -o outfile" with
\* computePkgInfo
GoRun(w) ==
    /\ procs[w].pc = "gorun"
    /\ IF procs[w].kind = "list"
       THEN /\ procs' = [procs EXCEPT ![w].out = listOut(procs[w].dir, "rev1"),
                                      ![w].pc = "lock2"]
            /\ disk' = disk
       ELSE /\ procs' = [procs EXCEPT
                           ![w].out = buildOut(toolSize(procs[w].dir), 2),
                           ![w].pc = "writecache"]
            /\ disk' = IF disk.exists
                       THEN [disk EXCEPT !.archive =
                               @ \cup {cachePath(procs[w].dir, "archive")}]
                       ELSE disk
    /\ UNCHANGED <<listcache, pkgsizecache, audit, run, mu>>
    /\ UNCHANGED <<threadVars, gomaxprocs>>

\* writeCache; pkgSize removes its outfile after it
WriteCache(w) ==
    /\ procs[w].pc = "writecache"
    /\ IF ~disk.exists
       THEN /\ procs' = fails(w)
            /\ disk' = disk
       ELSE IF procs[w].kind = "list"
       THEN /\ procs' = [procs EXCEPT ![w].pc = "done"]
            /\ disk' = [disk EXCEPT !.list =
                          Put(@, cachePath(procs[w].dir, "list"),
                              File("run", procs[w].out))]
       ELSE /\ procs' = [procs EXCEPT ![w].pc = "parse"]
            /\ disk' = [disk EXCEPT
                          !.build = Put(@, cachePath(procs[w].dir, "build"),
                                        File("run", procs[w].out)),
                          !.archive = @ \ {cachePath(procs[w].dir, "archive")}]
    /\ UNCHANGED <<listcache, pkgsizecache, audit, run, mu>>
    /\ UNCHANGED <<threadVars, gomaxprocs>>

\* json.Unmarshal of a disk entry, fmt.Sscanf of a size record
Parse(w) ==
    /\ procs[w].pc = "parse"
    /\ procs' =
         IF (IF procs[w].kind = "list" THEN Unmarshal(procs[w].out).ok
             ELSE Sscanf2(procs[w].out).ok)
         THEN [procs EXCEPT ![w].pc = "lock2"]
         ELSE fails(w)
    /\ UNCHANGED <<listcache, pkgsizecache, disk, audit, run, mu>>
    /\ UNCHANGED <<threadVars, gomaxprocs>>

\* the import list as "go list" prints it, sorted
Listed(S) == SelectSeq(CacheDirNames, LAMBDA d : d \in S)

\* pk.Imports of the target, kept by the main goroutine
targetImports == main.imps

\* populateNode, first loop: one goroutine per import after goList(tgt)
SpawnWarm ==
    /\ run = "first"
    /\ main.pc = "done" /\ main.ok
    /\ procs' = spawn("list", targetImports)
    /\ run' = "warm"
    /\ UNCHANGED <<listcache, pkgsizecache, disk, audit, mu>>
    /\ UNCHANGED <<threadVars, gomaxprocs>>

\* wg.Wait() of either batch returns
Join ==
    /\ run \in {"warm", "sizes"}
    /\ Wait({w \in Workers : procs[w].pc # "done"})
    /\ procs' = (0 :> [main EXCEPT !.pc = "next", !.i = 0])
    /\ run' = IF run = "warm" THEN "loop" ELSE "weights"
    /\ UNCHANGED <<listcache, pkgsizecache, disk, audit, mu>>
    /\ UNCHANGED <<threadVars, gomaxprocs>>

\* the sequential loops: goList(dep) in populateNode's second loop,
\* nidPkgSize of the sink of each edge in computeEdgeWeights
SeqCall ==
    /\ run \in {"loop", "weights"}
    /\ main.pc \in {"next", "done"} /\ main.ok
    /\ main.i < Len(targetImports)
    /\ procs' = (0 :> [Thread(IF run = "loop" THEN "list" ELSE "build",
                              targetImports[main.i + 1], targetImports,
                              main.i + 1)
                         EXCEPT !.pc = "lock1"])
    /\ UNCHANGED <<listcache, pkgsizecache, disk, audit, mu, run>>
    /\ UNCHANGED <<threadVars, gomaxprocs>>

\* computeEdgeWeights, first loop: one goroutine per node of the graph
SpawnSizes ==
    /\ run = "loop"
    /\ main.pc \in {"next", "done"} /\ main.ok
    /\ main.i = Len(targetImports)
    /\ procs' = spawn("build", <<ctarget>> \o targetImports)
    /\ run' = "sizes"
    /\ UNCHANGED <<listcache, pkgsizecache, disk, audit, mu>>
    /\ UNCHANGED <<threadVars, gomaxprocs>>

\* computeEdgeWeights returns nil
Finish ==
    /\ run = "weights"
    /\ main.pc \in {"next", "done"} /\ main.ok
    /\ main.i = Len(targetImports)
    /\ run' = "done"
    /\ UNCHANGED <<listcache, pkgsizecache, disk, audit, mu, procs>>
    /\ UNCHANGED <<threadVars, gomaxprocs>>

\* log.Fatal after an error of a sequential call
Fatal ==
    /\ run \in {"first", "loop", "weights"}
    /\ main.pc = "done" /\ ~main.ok
    /\ run' = "fatal"
    /\ UNCHANGED <<listcache, pkgsizecache, disk, audit, mu, procs>>
    /\ UNCHANGED <<threadVars, gomaxprocs>>

\* the directory an earlier run left, every identity in the same condition
ThreadDisks ==
    {NoDisk} \cup
    {[exists |-> TRUE, glo |-> g, list |-> PriorFiles("list", how),
      build |-> PriorFiles("build", how), archive |-> {}] :
        g \in {[present |-> FALSE, data |-> <<>>]} \cup
              {[present |-> TRUE, data |-> gloRecord(r, <<"x">>)] : r \in Hashes},
        how \in {[d \in ThreadDirs |-> h] : h \in {"absent", "stale", "garbage"}}}

\* main() at the call of populateNode(target, g), which starts with
\* goList(target)
InitThreads ==
    /\ repohash \in Hashes
    /\ goroothash = <<"x">>
    /\ disk \in ThreadDisks
    /\ prior = disk
    /\ \E S \in SUBSET DepDirs :
         procs = (0 :> Thread("list", ctarget, Listed(S), 0))
    /\ mu = NoLocks
    /\ audit = NoAudit
    /\ calls = <<>>
    /\ run = "first"
    /\ listcache = Empty
    /\ pkgsizecache = Empty
    /\ golistworld = Empty /\ sizeworld = Empty
    /\ inunsflag = FALSE /\ nostdflag = FALSE
    /\ nodes = Empty /\ labels = Empty /\ edges = <<>> /\ stack = <<>>
    /\ pc = "off" /\ listing = <<>> /\ pathto = Empty /\ k = 0
    /\ included = {} /\ cp = <<>> /\ cur = <<>> /\ cps = <<>>
    /\ failed = {} /\ report = <<>>
    /\ gomaxprocs \in {2, 2 * (MaxDeps + 1)}
    /\ running = {} /\ sizing = {}

NextThreads ==
    \/ \E w \in DOMAIN procs : Acquire(w)
    \/ \E w \in DOMAIN procs : Lock(w)
    \/ \E w \in DOMAIN procs : Look(w)
    \/ \E w \in DOMAIN procs : Unlock(w)
    \/ \E w \in DOMAIN procs : Mkdir(w)
    \/ \E w \in DOMAIN procs : ReadGlo(w)
    \/ \E w \in DOMAIN procs : RemoveAll(w)
    \/ \E w \in DOMAIN procs : ReMkdir(w)
    \/ \E w \in DOMAIN procs : InitOpen(w)
    \/ \E w \in DOMAIN procs : InitWrite(w)
    \/ \E w \in DOMAIN procs : ReadFile(w)
    \/ \E w \in DOMAIN procs : GoRun(w)
    \/ \E w \in DOMAIN procs : WriteCache(w)
    \/ \E w \in DOMAIN procs : Parse(w)
    \/ \E w \in DOMAIN procs : Store(w)
    \/ SpawnWarm \/ Join \/ SeqCall \/ SpawnSizes \/ Finish \/ Fatal

SpecThreads == InitThreads /\ [][NextThreads]_vars

\* ------------------------------------------------------- claims on threads
Kinds == {"list", "build"}

\* the record of this run is in the directory, whole
RecordWhole ==
    /\ disk.exists
    /\ disk.glo.present
    /\ disk.glo.data = repohash \o goroothash

\* C25: in every interleaving of a run the cache directory is discarded at
\* most once, no entry written in the run is deleted by a validation of the
\* same run, and once the first call of goList is over the record is whole
\* whenever a goroutine validates it, so that no goroutine discards the
\* directory or writes the record again.
C25_DiscardedOnce ==
    /\ audit.discards <= 1
    /\ audit.lost = {}
    /\ run # "first" => RecordWhole
    /\ \A w \in Workers :
         procs[w].pc \notin {"removeall", "remkdir", "initopen", "initwrite"}

\* the first call discarded the directory of an earlier run, and two
\* goroutines of the size batch are past their validation, one of them with
\* its entry written
C25_Witness ==
    /\ audit.discards = 1
    /\ run = "sizes"
    /\ RunEntries # {}
    /\ \E v \in Workers, w \in Workers :
         /\ v # w
         /\ procs[v].pc = "readfile"
         /\ procs[w].pc = "parse" /\ procs[w].miss

\* the thread is on the miss path: the tool is to run or its output is to
\* be written
InMiss(w) == procs[w].miss /\ procs[w].pc # "done"

\* C26: at no time are two threads on the miss path for the same query
\* kind and identity, and no two of them are about to write the same file.
C26_OneMissPerKey ==
    \A v \in DOMAIN procs, w \in DOMAIN procs :
        v # w /\ InMiss(v) /\ InMiss(w) =>
            /\ <<procs[v].kind, procs[v].dir>> # <<procs[w].kind, procs[w].dir>>
            /\ cachePath(procs[v].dir, procs[v].kind) #
                   cachePath(procs[w].dir, procs[w].kind)

\* two goroutines are about to write their entries at the same time
C26_Witness ==
    \E v \in Workers, w \in Workers :
        /\ v # w
        /\ procs[v].miss /\ procs[v].pc = "writecache"
        /\ procs[w].miss /\ procs[w].pc = "writecache"

\* C29: a thread that reads or writes listcache or pkgsizecache holds the
\* mutex of that map, whoever changes a map holds its mutex, and a mutex
\* has at most one holder.
C29_MutexHeld ==
    /\ [](/\ \A kind \in Kinds : Cardinality(mu[kind]) <= 1
          /\ \A w \in DOMAIN procs :
               procs[w].pc \in {"look", "store"} => w \in mu[procs[w].kind])
    /\ [][/\ listcache' # listcache =>
               \E w \in DOMAIN procs : mu.list = {w} /\ procs[w].kind = "list"
          /\ pkgsizecache' # pkgsizecache =>
               \E w \in DOMAIN procs : mu.build = {w} /\ procs[w].kind = "build"
         ]_vars

\* a goroutine is about to store under the mutex while another waits for it
C29_Witness ==
    \E v \in Workers, w \in Workers :
        /\ v # w
        /\ procs[v].kind = procs[w].kind
        /\ procs[v].pc = "store" /\ mu[procs[v].kind] = {v}
        /\ procs[w].pc \in {"lock1", "lock2"}

====
